---- MODULE Spec2Model ----
(***************************************************************************)
(* web2json: the hierarchical extraction core.                             *)
(*                                                                         *)
(*   organize_hierarchically   content_organizer.py  (level-stack builder) *)
(*   sort_blocks_by_position   content_organizer.py  (position key sort)   *)
(*   extract_content_hierarchically  extractor.py    (the orchestrator)    *)
(*                                                                         *)
(* A block handed to the organizer is a record                             *)
(*   tag    the element's tag name                                         *)
(*   len    len(element.get_text(strip=True))                              *)
(*   head   identity of the first 20 characters of that text               *)
(*   tail   identity of the last 20 characters of that text                *)
(*   ext    what the block's typed extractor does: "ok" (an item),         *)
(*          "none" (get_element_text renders "" / is_data_table is false   *)
(*          / extract_table returns None), "raise" (it raises)             *)
(*   pre    block.find("pre") is not None                                  *)
(*   text   what get_element_text renders: the strings it keeps            *)
(*   node   the DOM node the block is (0 when it is no node of a document) *)
(*   synth  the block is a <p> built around a bare text node               *)
(* The organizer's output is an arena `items`: item k has a type, a level  *)
(* (sections and headings), the arena index of the section whose content   *)
(* list it was appended to (parent = 0: the top-level result list) and the *)
(* index src of the block it was made from. Items are only ever appended,  *)
(* so the content list of a section is the arena order of its children.    *)
(***************************************************************************)
EXTENDS Integers, Sequences, FiniteSets, TLC

VARIABLES
    blocks,          \* organize_hierarchically: the `blocks` argument
    idx,             \* organize_hierarchically: position of the running for loop
    phase,           \* "idle" | "hier" | "flat" | "done"
    items,           \* the content items built so far (result + every section's content)
    sections_stack,  \* stack of (section, heading level)
    processed        \* organizer's own fingerprint set

VARIABLES
    doc,                     \* the parsed document (`soup`), as built by the parser
    removed,                 \* the nodes decomposed out of `soup` so far
    preserve_styles,         \* the flag of the call
    pc,                      \* where extract_content_hierarchically stands
    run,                     \* which call on this `soup` is running
    scored_elements,         \* the candidates kept, with their scores, ranked
    visited,                 \* how many candidates the for loop has processed
    processed_blocks,
    processed_fingerprints,
    content_sufficient,
    aggressive_ran,          \* history: extract_content_aggressively was called
    encountered,             \* history: the blocks in the order the passes met them
    outputs                  \* what each finished call returned or raised

orgVars == <<blocks, idx, phase, items, sections_stack, processed>>

extVars == <<doc, removed, preserve_styles, pc, run, scored_elements, visited,
             processed_blocks, processed_fingerprints, content_sufficient,
             aggressive_ran, encountered, outputs>>

\* The functions checked on their own (code, text, list and table extractors, the
\* scorer, the pipeline runner): each has its argument and what it returned.
VARIABLES
    code_el,         \* extract_code_block: the `element` argument and its surroundings
    code_content     \* extract_code_block: the CodeContent returned, <<>> before

codeVars == <<code_el, code_content>>

VARIABLES
    text_el,         \* get_element_text: the element and the preserve_styles flag
    text_out,        \* what base.py's get_element_text returned, <<>> before
    legacy_out       \* what content_extractor.py's get_element_text returned

textVars == <<text_el, text_out, legacy_out>>

VARIABLES
    list_element,    \* extract_list_items: the list and the preserve_styles flag
    list_items       \* <<the items returned>>, <<>> before

listVars == <<list_element, list_items>>

VARIABLES
    table,           \* extract_table / is_data_table: the <table> element
    table_content,   \* <<what extract_table returned>>, <<>> before
    data_table       \* <<what is_data_table returned or that it raised>>, <<>> before

tableVars == <<table, table_content, data_table>>

VARIABLES
    score_el,        \* score_content_element: the document and the element in it
    score_out        \* <<the score returned>>, <<>> before

scoreVars == <<score_el, score_out>>

VARIABLES
    raw_text,        \* extract_formatted_code: the text gathered from the code tag
    formatted        \* <<the string returned>>, <<>> before

fmtVars == <<raw_text, formatted>>

VARIABLES
    runner,          \* which of the three pipeline runners is running
    stages,          \* the number of stages in the list
    initial_context, \* the keys of the mapping the caller passed, as passed
    contexts,        \* the context mappings that exist: contexts[id] is the key set
    current_context, \* id of the mapping the runner holds
    stage_index,     \* the loop's position in the list
    pipeline_pc,     \* "loop", "running", "returned", "raised"
    pipeline_log     \* the stage events so far

pipeVars == <<runner, stages, initial_context, contexts, current_context, stage_index, pipeline_pc,
              pipeline_log>>

VARIABLES
    tm_stage,        \* the stage run_pipeline is waiting for under wait_for
    tm_executor,     \* "shared": the stage was given an executor; "own": it was not
    tm_calls,        \* run_in_thread calls the stage has still to make
    tm_task,         \* the stage's task: "running", "in_thread", "cancelling", ...
    tm_worker,       \* the pool thread: [state, steps]
    tm_pipeline,     \* run_pipeline: "waiting", "returned", "raised"
    tm_late          \* the thread worked on the context or the DOM after the raise

tmVars == <<tm_stage, tm_executor, tm_calls, tm_task, tm_worker, tm_pipeline, tm_late>>

VARIABLES
    stage_context,   \* ExtractStage.process: the keys of the context, and its soup entry
    stage_content,   \* <<the list stored in context["content"]>>, <<>> when none is
    stage_outcome    \* "pending", "returned", or the class of the exception raised

stageVars == <<stage_context, stage_content, stage_outcome>>

VARIABLES
    urls,            \* bulk_process_urls: the number of URLs in the list
    max_concurrency, \* the initial value of the semaphore
    semaphore,       \* the value of the semaphore
    tasks,           \* tasks[u]: where process_with_semaphore stands for URL u
    results,         \* the result entries appended so far
    bulk_pc          \* "gather", "returned"

bulkVars == <<urls, max_concurrency, semaphore, tasks, results, bulk_pc>>

VARIABLES
    url_args,        \* process_url: its arguments, and the interpreter's TimeoutError
    url_stage,       \* the stage run_pipeline is in; past the last one when all are done
    url_outcome      \* <<what the call returned, or that it raised>>, <<>> before

urlVars == <<url_args, url_stage, url_outcome>>

lateVars == <<tmVars, stageVars, bulkVars, urlVars>>

auxVars == <<codeVars, textVars, listVars, tableVars, scoreVars, fmtVars, pipeVars, lateVars>>

vars == <<orgVars, extVars, auxVars>>

\* The variables of a part that is not running.
OrgIdle ==
    /\ blocks = <<>>
    /\ idx = 1
    /\ phase = "idle"
    /\ items = <<>>
    /\ sections_stack = <<>>
    /\ processed = {}

ExtIdle ==
    /\ doc = <<>>
    /\ removed = {}
    /\ preserve_styles = FALSE
    /\ pc = "idle"
    /\ run = 1
    /\ scored_elements = <<>>
    /\ visited = 0
    /\ processed_blocks = <<>>
    /\ processed_fingerprints = {}
    /\ content_sufficient = FALSE
    /\ aggressive_ran = FALSE
    /\ encountered = <<>>
    /\ outputs = <<>>

CodeIdle == code_el = <<>> /\ code_content = <<>>

TextIdle == text_el = <<>> /\ text_out = <<>> /\ legacy_out = <<>>

TmIdle ==
    /\ tm_stage = "" /\ tm_executor = "" /\ tm_calls = 0 /\ tm_task = "idle"
    /\ tm_worker = <<>> /\ tm_pipeline = "idle" /\ tm_late = FALSE

StageIdle == stage_context = <<>> /\ stage_content = <<>> /\ stage_outcome = "idle"

\* Every part but `part` is idle.
IdleBut(part) ==
    /\ IF part = "timeout" THEN TRUE ELSE TmIdle
    /\ IF part = "stage" THEN TRUE ELSE StageIdle
    /\ IF part = "url" THEN TRUE
       ELSE url_args = <<>> /\ url_stage = 0 /\ url_outcome = <<>>
    /\ IF part = "bulk" THEN TRUE
       ELSE /\ urls = 0 /\ max_concurrency = 0 /\ semaphore = 0 /\ tasks = <<>>
            /\ results = <<>> /\ bulk_pc = "idle"
    /\ IF part \in {"extractor", "stage"} THEN TRUE ELSE OrgIdle /\ ExtIdle
    /\ IF part = "code" THEN TRUE ELSE CodeIdle
    /\ IF part = "text" THEN TRUE ELSE TextIdle
    /\ IF part = "list" THEN TRUE ELSE list_element = <<>> /\ list_items = <<>>
    /\ IF part = "pipeline" THEN TRUE
       ELSE /\ runner = "" /\ stages = 0 /\ initial_context = {} /\ contexts = <<>> /\ current_context = 0
            /\ stage_index = 0 /\ pipeline_pc = "idle" /\ pipeline_log = <<>>
    /\ IF part = "format" THEN TRUE ELSE raw_text = <<>> /\ formatted = <<>>
    /\ IF part = "score" THEN TRUE ELSE score_el = <<>> /\ score_out = <<>>
    /\ IF part = "table" THEN TRUE
       ELSE table = <<>> /\ table_content = <<>> /\ data_table = <<>>

\* ---------------------------------------------------------------- bounds
MaxBlocks == 3      \* longest exhaustively enumerated block list
MaxLevel == 3       \* heading levels h1..hMaxLevel in enumerated block lists
MaxCalls == 2       \* successive calls of the orchestrator on one soup
MaxParas == 7       \* most paragraphs in a generated article

\* ---------------------------------------------------------------- helpers
Last(s) == s[Len(s)]

Front(s) == SubSeq(s, 1, Len(s) - 1)

HeadingTags == <<"h1", "h2", "h3", "h4", "h5", "h6">>

IsHeadingTag(t) == \E l \in 1..6 : HeadingTags[l] = t

\* int(block.name[1])
HeadingLevel(t) == CHOOSE l \in 1..6 : HeadingTags[l] = t

\* ------------------------------------------------- create_content_fingerprint
NoFp == <<>>

FP_MIN_LEN == 15

FP_TAIL_LEN == 40

create_content_fingerprint(b) ==
    IF b.len < FP_MIN_LEN THEN NoFp
    ELSE <<b.tag, b.head, IF b.len > FP_TAIL_LEN THEN b.tail ELSE 0>>

\* ------------------------------------------------- organize_hierarchically
Item(type, level, parent, src) ==
    [type |-> type, level |-> level, parent |-> parent, src |-> src]

\* Mutant of PopWhile: closes only strictly deeper sections.
RECURSIVE PopWhileDeeper(_, _)
PopWhileDeeper(stack, level) ==
    IF stack # <<>> /\ Last(stack).level > level
    THEN PopWhileDeeper(Front(stack), level)
    ELSE stack

\* Mutant of PopWhile: an "if" in place of the "while", at most one section closed.
PopOnce(stack, level) ==
    IF stack # <<>> /\ Last(stack).level >= level THEN Front(stack) ELSE stack

\* "while sections_stack and sections_stack[-1][1] >= level: sections_stack.pop()"
RECURSIVE PopWhile(_, _)
PopWhile(stack, level) ==
    IF stack # <<>> /\ Last(stack).level >= level
    THEN PopWhile(Front(stack), level)
    ELSE stack

\* "if sections_stack: sections_stack[-1][0].content.append(x) else: result.append(x)"
CurrentParent(stack) == IF stack # <<>> THEN Last(stack).section ELSE 0

\* Mutant of AppendToCurrent: the item always goes to the top-level result.
AppendToResult(st, type, k) ==
    [st EXCEPT !.items = Append(@, Item(type, 0, 0, k))]

\* Mutant of AppendToCurrent: the item goes to the outermost open section.
AppendToOutermost(st, type, k) ==
    [st EXCEPT !.items =
        Append(@, Item(type, 0, IF st.stack # <<>> THEN st.stack[1].section ELSE 0, k))]

AppendToCurrent(st, type, k) ==
    [st EXCEPT !.items = Append(@, Item(type, 0, CurrentParent(st.stack), k))]

\* The heading branch, lines 89-122.
HeadingBranch(st, b, k) ==
    LET level == HeadingLevel(b.tag)
        stack == PopWhile(st.stack, level)
        sec   == Len(st.items) + 1
    IN  [st EXCEPT
            !.items = st.items
                      \o <<Item("section", level, CurrentParent(stack), k),
                           Item("heading", level, sec, k)>>,
            !.stack = Append(stack, [section |-> sec, level |-> level])]

\* The branch of the hierarchical pass a block takes, lines 88-201; "" when no branch
\* matches (the block is dropped silently).
HierType(b) ==
    CASE IsHeadingTag(b.tag) -> "section"
      [] b.tag = "p" -> "paragraph"
      [] b.tag \in {"ul", "ol"} -> "list"
      [] b.tag = "blockquote" -> "blockquote"
      [] b.tag = "pre" \/ (b.tag = "div" /\ b.pre) -> "code_block"
      [] b.tag = "table" -> "table"
      [] OTHER -> ""

\* One iteration of the for loop of the hierarchical pass, lines 74-205.
HierStep(st, b, k) ==
    LET fp  == create_content_fingerprint(b)
        st1 == IF fp # NoFp THEN [st EXCEPT !.processed = @ \cup {fp}] ELSE st
        ty  == HierType(b)
    IN  IF fp # NoFp /\ fp \in st.processed THEN st          \* continue
        ELSE IF ty = "" \/ b.ext # "ok" THEN st1            \* skipped / except: warning
        ELSE IF ty = "section" THEN HeadingBranch(st1, b, k)
        ELSE AppendToCurrent(st1, ty, k)

\* The branch of the flat pass a block takes, lines 212-257.
FlatType(b) ==
    CASE b.tag = "p" -> "paragraph"
      [] b.tag \in {"ul", "ol"} -> "list"
      [] IsHeadingTag(b.tag) -> "heading"
      [] b.tag = "blockquote" -> "blockquote"
      [] b.tag = "pre" \/ b.pre -> "code_block"
      [] b.tag = "table" -> "table"
      [] OTHER -> ""

\* One iteration of the for loop of the flat pass, lines 210-260.
FlatStep(st, b, k) ==
    LET ty == FlatType(b)
    IN  IF ty = "" \/ b.ext # "ok" THEN st
        ELSE [st EXCEPT !.items =
                Append(@, Item(ty, IF ty = "heading" THEN HeadingLevel(b.tag) ELSE 0, 0, k))]

OrgState == [items |-> items, stack |-> sections_stack, processed |-> processed]

\* `result`: the arena indices of the top-level items, in order.
ChildrenOf(its, p) == {k \in 1..Len(its) : its[k].parent = p}

\* ================================================================ the DOM
\* A document is the sequence of its nodes in document order. A node is
\*   tag   the tag name, "#text" for a text node
\*   par   the index of its parent; 0 is the BeautifulSoup object itself
\*   len   text node: len(string.strip());  txt: the identity of that string
\*   ccls / cid   the class / the id matches one of CONTENT_CLASS_PATTERNS
\*   ncp   how many of NON_CONTENT_PATTERNS the class or the id matches
\*   cms   one of the framework selectors of lines 94-107 selects the element
\*   ext   what the element's typed extractor does (see the block record)
\* `removed` holds the nodes that Tag.decompose() has taken out of the tree.
Node(tag, par, len, txt) ==
    [tag |-> tag, par |-> par, len |-> len, txt |-> txt, ccls |-> FALSE, cid |-> FALSE,
     ncp |-> 0, cms |-> FALSE, ext |-> "ok"]

El(tag, par) == Node(tag, par, 0, 0)

Text(par, len, txt) == Node("#text", par, len, txt)

\* The attributes of node n; node 0, the BeautifulSoup object, is named "[document]".
At(d, n) == IF n = 0 THEN El("[document]", 0) ELSE d[n]

RECURSIVE Ancestors(_, _)
Ancestors(d, n) ==
    IF n = 0 \/ d[n].par = 0 THEN {} ELSE {d[n].par} \cup Ancestors(d, d[n].par)

\* The nodes below n that are still in the tree (n = 0: the whole document).
Descendants(d, rem, n) ==
    {m \in (1..Len(d)) \ rem : n = 0 \/ n \in Ancestors(d, m)}

\* A set of nodes as the sequence of its members in document order.
RECURSIVE Asc(_)
Asc(S) ==
    IF S = {} THEN <<>>
    ELSE LET m == CHOOSE x \in S : \A y \in S : x <= y
         IN  <<m>> \o Asc(S \ {m})

RECURSIVE SumOver(_, _)
SumOver(S, f) ==
    IF S = {} THEN 0
    ELSE LET m == CHOOSE x \in S : TRUE IN f[m] + SumOver(S \ {m}, f)

\* element.find_all(tags): the descendants with one of the tags.
FindAll(d, rem, n, tags) == {m \in Descendants(d, rem, n) : d[m].tag \in tags}

\* element.find_all(True): every descendant element.
FindAllTags(d, rem, n) == {m \in Descendants(d, rem, n) : d[m].tag # "#text"}

\* The strings get_text() joins: bs4 (>= 4.13.3, setup.py) leaves out the strings
\* inside <script> and <style>.
TextNodes(d, rem, n) ==
    {m \in Descendants(d, rem, n) \cup ({n} \ ({0} \cup rem)) :
        d[m].tag = "#text" /\ d[m].len > 0
        /\ (d[m].par = 0 \/ d[d[m].par].tag \notin {"script", "style"})}

\* len(element.get_text(strip=True))
TextLen(d, rem, n) == SumOver(TextNodes(d, rem, n), [m \in 1..Len(d) |-> d[m].len])

Children(d, rem, n) == {m \in (1..Len(d)) \ rem : d[m].par = n}

\* ------------------------------------------------- content_scorer.py
MIN_TEXT_LENGTH == 30

\* get_content_text_length works on the element itself ("elem_copy = element"): the
\* script, style and noscript descendants it decomposes leave the caller's tree.
StrippedBy(d, rem, n) ==
    LET roots == FindAll(d, rem, n, {"script", "style", "noscript"})
    IN  roots \cup UNION {Descendants(d, rem, r) : r \in roots}

get_content_text_length(d, rem, n) == TextLen(d, rem \cup StrippedBy(d, rem, n), n)

Min(a, b) == IF a < b THEN a ELSE b

Max(a, b) == IF a > b THEN a ELSE b

\* score_content_element, in units of 1/200 point (text_length / 100 and
\* len(paragraphs) / 2 are exact in these units).
SCORE_UNIT == 200

score_content_element(d, rem, n) ==
    LET text_length == TextLen(d, rem, n)
        paragraphs  == FindAll(d, rem, n, {"p"})
        p_text      == SumOver(paragraphs, [m \in 1..Len(d) |-> TextLen(d, rem, m)])
        links       == FindAll(d, rem, n, {"a"})
        link_text   == SumOver(links, [m \in 1..Len(d) |-> TextLen(d, rem, m)])
        score ==
            Min(2 * text_length, 10 * SCORE_UNIT)
            + (IF At(d, n).tag \in {"article", "main", "section"} THEN 5 * SCORE_UNIT ELSE 0)
            + (IF At(d, n).ccls THEN 3 * SCORE_UNIT ELSE 0)
            + (IF At(d, n).cid THEN 3 * SCORE_UNIT ELSE 0)
            - At(d, n).ncp * 5 * SCORE_UNIT
            + Cardinality(FindAll(d, rem, n, {"h1", "h2", "h3", "h4", "h5", "h6"}))
                * 2 * SCORE_UNIT
            + (IF paragraphs # {} /\ p_text > 40 * Cardinality(paragraphs)
               THEN 3 * SCORE_UNIT ELSE 0)
            + (IF paragraphs # {}
               THEN Min(Cardinality(paragraphs) * (SCORE_UNIT \div 2), 5 * SCORE_UNIT)
               ELSE 0)
            + Cardinality(FindAll(d, rem, n,
                  {"ul", "ol", "blockquote", "pre", "code", "table"})) * 3 * (SCORE_UNIT \div 2)
            - (IF links # {}
                  /\ (IF text_length > 0 THEN 2 * link_text > text_length ELSE TRUE)
               THEN 4 * SCORE_UNIT ELSE 0)
    IN  Max(score, 0)

\* base.py
EXCLUDE_TAGS ==
    {"script", "style", "noscript", "iframe", "svg", "canvas", "button", "input",
     "select", "option", "form", "meta", "link"}

\* get_element_text(element): the strings of a copy of the element, without those
\* below an EXCLUDE_TAGS element, in order (the text itself is kept abstract).
get_element_text(d, rem, n) ==
    LET ts == Asc({m \in TextNodes(d, rem, n) :
                    \A a \in (Ancestors(d, m) \cap (Descendants(d, rem, n) \cup {n})) :
                        d[a].tag \notin EXCLUDE_TAGS})
    IN  [k \in 1..Len(ts) |-> d[ts[k]].txt]

\* The block record of element n, and of the <p> built around text node n
\* (content_finder.py 185).
BlockOf(d, rem, n) ==
    LET ts == Asc(TextNodes(d, rem, n))
    IN  [tag |-> d[n].tag, len |-> TextLen(d, rem, n),
         head |-> IF ts = <<>> THEN 0 ELSE d[ts[1]].txt,
         tail |-> IF ts = <<>> THEN 0 ELSE d[Last(ts)].txt,
         ext |-> IF d[n].tag = "p" /\ get_element_text(d, rem, n) = <<>>
                 THEN "none" ELSE d[n].ext,
         pre |-> FindAll(d, rem, n, {"pre"}) # {},
         text |-> get_element_text(d, rem, n),
         node |-> n, synth |-> FALSE]

SyntheticP(d, n) ==
    [tag |-> "p", len |-> d[n].len, head |-> d[n].txt, tail |-> d[n].txt,
     ext |-> "ok", pre |-> FALSE, text |-> <<d[n].txt>>, node |-> n, synth |-> TRUE]

\* ------------------------------------------------- content_finder.py
STRUCTURAL_TAGS ==
    {"h1", "h2", "h3", "h4", "h5", "h6", "p", "blockquote", "pre", "ul", "ol", "dl",
     "table", "article", "section", "main"}

MIN_PARAGRAPH_LENGTH == 20

DENSITY_MIN_TEXT == 200

DENSITY_MIN_RATIO == 10

\* "Remove duplicates while preserving order", lines 125-132.
RECURSIVE Unique(_)
Unique(s) ==
    IF s = <<>> THEN <<>>
    ELSE LET r == Unique(Front(s))
         IN  IF \E k \in 1..Len(r) : r[k] = Last(s) THEN r ELSE Append(r, Last(s))

\* Strategy 4, lines 110-123: the text-dense <div>s not yet found.
DenseDivs(d, rem, found) ==
    {n \in FindAll(d, rem, 0, {"div"}) :
        /\ n \notin found
        /\ TextLen(d, rem, n) >= DENSITY_MIN_TEXT
        /\ FindAllTags(d, rem, n) # {}
        /\ TextLen(d, rem, n) > DENSITY_MIN_RATIO * Cardinality(FindAllTags(d, rem, n))}

find_main_content_elements(d, rem) ==
    LET semantic == FindAll(d, rem, 0, {"article", "main", "section"})
        byClass  == {n \in FindAllTags(d, rem, 0) \ semantic : d[n].ccls \/ d[n].cid}
        bySel    == {n \in FindAllTags(d, rem, 0) : d[n].cms}
        found    == semantic \cup byClass \cup bySel
    IN  Unique(Asc(semantic) \o Asc(byClass) \o Asc(bySel)
               \o Asc(DenseDivs(d, rem, found)))

is_likely_non_content(d, n) ==
    d[n].tag \in {"nav", "footer", "header"} \/ d[n].ncp > 0

NOT_RECURSED == {"script", "style", "meta", "link", "noscript", "svg", "button", "input"}

\* The direct-child walk of extract_content_blocks, lines 176-198, over the children
\* `cs` of an element, in order.
RECURSIVE WalkChildren(_, _, _)
WalkChildren(d, rem, cs) ==
    IF cs = <<>> THEN <<>>
    ELSE LET c    == Head(cs)
             rest == WalkChildren(d, rem, Tail(cs))
         IN  IF d[c].tag = "#text"
             THEN (IF d[c].len > MIN_PARAGRAPH_LENGTH THEN <<SyntheticP(d, c)>> ELSE <<>>)
                  \o rest
             ELSE IF d[c].tag \in STRUCTURAL_TAGS
             THEN (IF is_likely_non_content(d, c) THEN <<>> ELSE <<BlockOf(d, rem, c)>>)
                  \o rest
             ELSE IF d[c].tag \notin NOT_RECURSED
             THEN WalkChildren(d, rem, Asc(Children(d, rem, c))) \o rest
             ELSE rest

\* The fallback scan of extract_content_blocks, lines 201-215, over the structural
\* descendants `ss` in document order; `acc` are the nodes taken so far.
RECURSIVE DeepScan(_, _, _, _)
DeepScan(d, rem, ss, acc) ==
    IF ss = <<>> THEN <<>>
    ELSE LET s == Head(ss)
             skip == \/ \E a \in acc : d[s].par = a
                     \/ (TextLen(d, rem, s) < MIN_TEXT_LENGTH /\ ~IsHeadingTag(d[s].tag))
                     \/ is_likely_non_content(d, s)
         IN  IF skip THEN DeepScan(d, rem, Tail(ss), acc)
             ELSE <<BlockOf(d, rem, s)>> \o DeepScan(d, rem, Tail(ss), acc \cup {s})

extract_content_blocks(d, rem, n) ==
    LET direct == WalkChildren(d, rem, Asc(Children(d, rem, n)))
    IN  IF direct # <<>> THEN direct
        ELSE DeepScan(d, rem, Asc(FindAll(d, rem, n, STRUCTURAL_TAGS)), {})

\* The siblings after n, in order, up to the next heading (lines 243-250).
RECURSIVE FollowingContent(_, _)
FollowingContent(d, sibs) ==
    IF sibs = <<>> \/ IsHeadingTag(d[Head(sibs)].tag) THEN <<>>
    ELSE (IF d[Head(sibs)].tag \in {"p", "ul", "ol", "blockquote", "pre"}
          THEN <<Head(sibs)>> ELSE <<>>) \o FollowingContent(d, Tail(sibs))

RECURSIVE HeadingsWithContent(_, _, _)
HeadingsWithContent(d, rem, hs) ==
    IF hs = <<>> THEN <<>>
    ELSE LET h == Head(hs)
         IN  (IF TextLen(d, rem, h) < 10 \/ is_likely_non_content(d, h) THEN <<>>
              ELSE <<h>> \o FollowingContent(d,
                        Asc({m \in Children(d, rem, d[h].par) : m > h})))
             \o HeadingsWithContent(d, rem, Tail(hs))

\* is_data_table as the aggressive scan uses it: it raises on the tables whose
\* attributes it cannot read (int(table.get("border")), table_extractor.py 207).
TableRaises(d, rem) == \E t \in FindAll(d, rem, 0, {"table"}) : d[t].ext = "raise"

\* extract_content_aggressively, for a document none of whose tables raises.
extract_content_aggressively(d, rem) ==
    LET all(tags) == FindAll(d, rem, 0, tags)
        nodes ==
            HeadingsWithContent(d, rem, Asc(all({"h1", "h2", "h3", "h4", "h5", "h6"})))
            \o Asc({n \in all({"p"}) : /\ TextLen(d, rem, n) >= MIN_PARAGRAPH_LENGTH
                                       /\ ~is_likely_non_content(d, n)})
            \o Asc({n \in all({"ul", "ol"}) : /\ FindAll(d, rem, n, {"li"}) # {}
                                              /\ ~is_likely_non_content(d, n)})
            \o Asc({n \in all({"pre", "code"}) : TextLen(d, rem, n) >= 10})
            \o Asc({n \in all({"table"}) : /\ d[n].ext = "ok"
                                           /\ ~is_likely_non_content(d, n)})
    IN  [k \in 1..Len(nodes) |-> BlockOf(d, rem, nodes[k])]

\* ------------------------------------------------- sort_blocks_by_position
\* get_position adds own index + parent's index * 1000 + grandparent's * 1000000 ...
\* in Python's unbounded integers. The sum is kept here as its numeral in base
\* POSITION_RADIX, least significant digit first: <<own index, parent's index,
\* grandparent's index, ...>>. (No element of a document here has 1000 siblings,
\* so no digit carries.)
POSITION_RADIX == 1000

\* "for sibling in element.previous_siblings: position += 1"
PreviousSiblings(d, rem, n) ==
    IF n = 0 THEN 0 ELSE Cardinality({m \in Children(d, rem, d[n].par) : m < n})

\* The while loop over the parents, lines 40-47: one digit per ancestor, up to and
\* including the BeautifulSoup object.
RECURSIVE ParentPositions(_, _, _)
ParentPositions(d, rem, parent) ==
    <<PreviousSiblings(d, rem, parent)>>
    \o (IF parent = 0 THEN <<>> ELSE ParentPositions(d, rem, d[parent].par))

\* A <p> built by extract_content_blocks has no sibling, and its parent, a soup of
\* its own, has none either.
get_position(d, rem, b) ==
    IF b.synth THEN <<0, 0>>
    ELSE <<PreviousSiblings(d, rem, b.node)>>
         \o ParentPositions(d, rem, d[b.node].par)

\* The numeral stands for the sum: every digit is below the radix.
IsNumeral(x) == \A k \in 1..Len(x) : x[k] < POSITION_RADIX

\* The numeral without its leading (most significant) zeros.
RECURSIVE Significant(_)
Significant(x) ==
    IF x # <<>> /\ Last(x) = 0 THEN Significant(Front(x)) ELSE x

\* x < y, as numbers.
PositionLess(x, y) ==
    LET a == Significant(x)
        b == Significant(y)
    IN  IF Len(a) # Len(b) THEN Len(a) < Len(b)
        ELSE \E k \in 1..Len(a) :
                /\ a[k] < b[k]
                /\ \A j \in (k + 1)..Len(a) : a[j] = b[j]

\* sorted(blocks, key=get_position): stable, ascending.
RECURSIVE sort_blocks_by_position(_, _, _)
sort_blocks_by_position(d, rem, bs) ==
    IF bs = <<>> THEN <<>>
    ELSE LET r == sort_blocks_by_position(d, rem, Front(bs))
             x == Last(bs)
             n == Cardinality({k \in 1..Len(r) :
                     ~PositionLess(get_position(d, rem, x), get_position(d, rem, r[k]))})
         IN  SubSeq(r, 1, n) \o <<x>> \o SubSeq(r, n + 1, Len(r))

\* ------------------------------------------------- block lists (organizer alone)
\* The kinds of block the orchestrator can pass: every tag of STRUCTURAL_TAGS the
\* passes can yield, with each outcome of its extractor.
Kind(tag, ext, pre) == [tag |-> tag, ext |-> ext, pre |-> pre]

BlockKinds ==
    {Kind(HeadingTags[l], "ok", FALSE) : l \in 1..MaxLevel}
    \cup {Kind("p", e, FALSE) : e \in {"ok", "none"}}
    \cup {Kind("table", e, FALSE) : e \in {"ok", "none", "raise"}}
    \cup {Kind(t, "ok", FALSE) : t \in {"ul", "ol", "blockquote", "section"}}
    \cup {Kind(t, "ok", TRUE) : t \in {"pre", "div", "dl"}}

\* processed_blocks carries pairwise distinct fingerprints (extractor.py 78-82 and
\* 98-102), so the k-th block gets a text of its own.
MkBlock(kind, k) ==
    [tag |-> kind.tag, len |-> 50, head |-> k, tail |-> k, ext |-> kind.ext,
     pre |-> kind.pre, text |-> <<k>>, node |-> 0, synth |-> FALSE]

MkBlocks(kinds) == [k \in 1..Len(kinds) |-> MkBlock(kinds[k], k)]

SeqsUpTo(S, n) == UNION {[1..m -> S] : m \in 0..n}

H(l) == Kind(HeadingTags[l], "ok", FALSE)

P == Kind("p", "ok", FALSE)

\* The heading-hierarchy document: h1 > (p, h2 > p, h2 > p).
HierarchyDoc == <<H(1), P, H(2), P, H(2), P>>

Scenarios ==
    { HierarchyDoc,
      <<H(1), H(2), H(3), P, H(2), P, H(1), P>>,
      <<P, H(3), P, H(2), Kind("ul", "ok", FALSE), H(3), H(1)>> }

\* ---------------------------------------------------------------- organizer alone
\* organize_hierarchically on each block list, outside a call of the orchestrator.
OrgInit ==
    /\ \E kinds \in SeqsUpTo(BlockKinds, MaxBlocks) \cup Scenarios :
          blocks = MkBlocks(kinds)
    /\ idx = 1
    /\ phase = "hier"
    /\ items = <<>>
    /\ sections_stack = <<>>
    /\ processed = {}
    /\ doc = <<>>
    /\ removed = {}
    /\ preserve_styles = FALSE
    /\ pc = "organizer"
    /\ run = 1
    /\ scored_elements = <<>>
    /\ visited = 0
    /\ processed_blocks = <<>>
    /\ processed_fingerprints = {}
    /\ content_sufficient = FALSE
    /\ aggressive_ran = FALSE
    /\ encountered = <<>>
    /\ outputs = <<>>
    /\ IdleBut("extractor")

OrgHierStep ==
    /\ phase = "hier"
    /\ idx <= Len(blocks)
    /\ LET st == HierStep(OrgState, blocks[idx], idx)
       IN  /\ items' = st.items
           /\ sections_stack' = st.stack
           /\ processed' = st.processed
    /\ idx' = idx + 1
    /\ UNCHANGED <<blocks, phase, extVars, auxVars>>

\* "if not result and blocks:" (line 208) decides whether the flat pass runs.
OrgHierEnd ==
    /\ phase = "hier"
    /\ idx > Len(blocks)
    /\ IF ChildrenOf(items, 0) = {} /\ blocks # <<>>
       THEN phase' = "flat" /\ idx' = 1
       ELSE phase' = "done" /\ idx' = idx
    /\ UNCHANGED <<blocks, items, sections_stack, processed, extVars, auxVars>>

OrgFlatStep ==
    /\ phase = "flat"
    /\ idx <= Len(blocks)
    /\ items' = FlatStep(OrgState, blocks[idx], idx).items
    /\ idx' = idx + 1
    /\ UNCHANGED <<blocks, phase, sections_stack, processed, extVars, auxVars>>

OrgFlatEnd ==
    /\ phase = "flat"
    /\ idx > Len(blocks)
    /\ phase' = "done"
    /\ UNCHANGED <<blocks, idx, items, sections_stack, processed, extVars, auxVars>>

OrgNext == OrgHierStep \/ OrgHierEnd \/ OrgFlatStep \/ OrgFlatEnd

SpecOrg == OrgInit /\ [][OrgNext]_vars

\* ================================================================ documents
\* The documents the calls are made on, as the parser (lxml) builds them.
Pre == <<El("html", 0), El("head", 1), El("body", 1)>>

WithClass(e) == [e EXCEPT !.ccls = TRUE]

WithId(e) == [e EXCEPT !.cid = TRUE]

NonContent(e) == [e EXCEPT !.ncp = 1]

Outcome(e, x) == [e EXCEPT !.ext = x]

\* <tag>text</tag> at index `at`, below `par`.
Leafy(tag, par, at, len, txt) == <<El(tag, par), Text(at, len, txt)>>

\* k paragraphs of len characters below `par`, the first at index `at`, with the
\* texts txt + 1 .. txt + k.
Paras(par, at, k, len, txt) ==
    [i \in 1..(2 * k) |->
        IF i % 2 = 1 THEN El("p", par) ELSE Text(at + i - 2, len, txt + (i \div 2))]

ParaLengths == {10, 25, 90}

\* <article> with k paragraphs.
ArticleDoc(k, len) == Pre \o <<El("article", 3)>> \o Paras(4, 5, k, len, 0)

\* <article> with a paragraphs, <div class="content"> with b, <section> with one.
SideDoc(a, b) ==
    Pre \o <<El("article", 3)>> \o Paras(4, 5, a, 90, 0)
        \o <<WithClass(El("div", 3))>> \o Paras(5 + 2 * a, 6 + 2 * a, b, 90, 100)
        \o <<El("section", 3)>> \o Paras(6 + 2 * a + 2 * b, 7 + 2 * a + 2 * b, 1, 90, 200)

\* <html><body></body></html>
EmptyDoc == <<El("html", 0), El("body", 1)>>

\* <article><h1/><p/><h2/><p/><h2/><p/></article>
HierarchyDom ==
    Pre \o <<El("article", 3)>>
        \o Leafy("h1", 4, 5, 20, 1) \o Leafy("p", 4, 7, 60, 2)
        \o Leafy("h2", 4, 9, 20, 3) \o Leafy("p", 4, 11, 60, 4)
        \o Leafy("h2", 4, 13, 20, 5) \o Leafy("p", 4, 15, 60, 6)

\* <article><p>T1</p></article>
\* <div><noscript>200 characters</noscript><h2/><p>T1</p><h3/><p>T4</p></div>
NoscriptDoc ==
    Pre \o <<El("article", 3)>> \o Leafy("p", 4, 5, 60, 1)
        \o <<El("div", 3)>> \o Leafy("noscript", 7, 8, 200, 9)
        \o Leafy("h2", 7, 10, 20, 2) \o Leafy("p", 7, 12, 60, 1)
        \o Leafy("h3", 7, 14, 20, 3) \o Leafy("p", 7, 16, 60, 4)

\* <body><div><p>one</p></div><p>two</p></body>
DepthDoc ==
    Pre \o <<El("div", 3)>> \o Leafy("p", 4, 5, 50, 1) \o Leafy("p", 3, 7, 50, 2)

\* <div id="content"><h1/><div class="post"><p/><p/></div><p>short</p></div>
OverlapDoc ==
    Pre \o <<WithId(El("div", 3))>> \o Leafy("h1", 4, 5, 30, 1)
        \o <<WithClass(El("div", 4))>> \o Leafy("p", 7, 8, 80, 2) \o Leafy("p", 7, 10, 80, 3)
        \o Leafy("p", 4, 12, 10, 4)

\* <body>bare text<p/>tiny</body>
BodyTextDoc == Pre \o <<Text(3, 40, 1)>> \o Leafy("p", 3, 5, 30, 2) \o <<Text(3, 10, 3)>>

\* <body><p/><table border="yes"/></body>
BadTableDoc ==
    Pre \o Leafy("p", 3, 4, 50, 1) \o <<Outcome(El("table", 3), "raise"), Text(6, 30, 2)>>

\* <article><h2/><table>data</table><table>layout</table><ul><li/></ul>
\*          <p><button>only a button</button></p><pre/></article>
MixedDoc ==
    Pre \o <<El("article", 3)>> \o Leafy("h2", 4, 5, 20, 1)
        \o Leafy("table", 4, 7, 60, 2)
        \o <<Outcome(El("table", 4), "none"), Text(9, 60, 3)>>
        \o <<El("ul", 4)>> \o Leafy("li", 11, 12, 30, 4)
        \o <<El("p", 4)>> \o Leafy("button", 14, 15, 30, 5)
        \o Leafy("pre", 4, 17, 40, 6)

\* <nav><p/></nav><article><p class="ad"/><p/></article>
ChromeDoc ==
    Pre \o <<El("nav", 3)>> \o Leafy("p", 4, 5, 50, 1)
        \o <<El("article", 3), NonContent(El("p", 7)), Text(8, 50, 2)>>
        \o Leafy("p", 7, 10, 50, 3)

\* <body><p><button>40 characters</button></p></body>
ButtonDoc == Pre \o <<El("p", 3)>> \o Leafy("button", 4, 5, 40, 1)

\* <article><dl><dt>term</dt><dd><pre>short</pre></dd></dl></article>
DlDoc ==
    Pre \o <<El("article", 3), El("dl", 4)>> \o Leafy("dt", 5, 6, 30, 1)
        \o <<El("dd", 5)>> \o Leafy("pre", 8, 9, 12, 2)

\* <article><h2>12 characters</h2><p/><pre>12 characters</pre><p>tiny</p></article>
ShortHeadingDoc ==
    Pre \o <<El("article", 3)>> \o Leafy("h2", 4, 5, 12, 1) \o Leafy("p", 4, 7, 60, 2)
        \o Leafy("pre", 4, 9, 12, 3) \o Leafy("p", 4, 11, 10, 4)

\* <article> with six <dl><dt>90 characters</dt></dl>.
GlossaryDoc ==
    Pre \o <<El("article", 3)>>
        \o [i \in 1..18 |->
              IF i % 3 = 1 THEN El("dl", 4)
              ELSE IF i % 3 = 2 THEN El("dt", 4 + i - 1)
              ELSE Text(4 + i - 1, 90, i \div 3)]

\* <article><h2/><blockquote><p/></blockquote>
\*          <ul><li><p/><ul><li>text</li></ul></li></ul></article>
QuoteDoc ==
    Pre \o <<El("article", 3)>> \o Leafy("h2", 4, 5, 20, 1)
        \o <<El("blockquote", 4)>> \o Leafy("p", 7, 8, 60, 2)
        \o <<El("ul", 4), El("li", 10)>> \o Leafy("p", 11, 12, 40, 3)
        \o <<El("ul", 11)>> \o Leafy("li", 14, 15, 30, 4)

\* <article><section class="sidebar"><ul><li><p/></li></ul></section></article>
SidebarDoc ==
    Pre \o <<El("article", 3), NonContent(El("section", 4)), El("ul", 5), El("li", 6)>>
        \o Leafy("p", 7, 8, 40, 1)

Documents ==
    {ArticleDoc(k, len) : k \in 0..MaxParas, len \in ParaLengths}
    \cup {SideDoc(a, b) : a, b \in 0..MaxParas}
    \cup {<<>>, EmptyDoc, HierarchyDom, NoscriptDoc, DepthDoc, OverlapDoc, BodyTextDoc,
          BadTableDoc, MixedDoc, ChromeDoc, ButtonDoc, DlDoc, ShortHeadingDoc,
          GlossaryDoc, QuoteDoc, SidebarDoc}

\* Every document is a tree in document order, each node below an element that
\* precedes it and is open at that point.
WellFormed(d) ==
    \A n \in 1..Len(d) :
        /\ d[n].par < n
        /\ d[n].par # 0 => d[d[n].par].tag # "#text"
        /\ n > 1 => d[n].par \in {n - 1} \cup Ancestors(d, n - 1) \cup {0}

\* ================================================================ the orchestrator
\* extract_content_hierarchically (extractor.py 33-115), one action per step.
SUFFICIENT_TEXT == 500

SUFFICIENT_BLOCKS == 5

RECURSIVE SumLen(_)
SumLen(bs) == IF bs = <<>> THEN 0 ELSE Head(bs).len + SumLen(Tail(bs))

\* Mutant of Sufficient: either condition is enough.
SufficientEither(bs) == SumLen(bs) > SUFFICIENT_TEXT \/ Len(bs) > SUFFICIENT_BLOCKS

\* "if total_text > 500 and len(processed_blocks) > 5", line 88.
Sufficient(bs) == SumLen(bs) > SUFFICIENT_TEXT /\ Len(bs) > SUFFICIENT_BLOCKS

\* Mutant of AfterCandidate: the scan no longer looks at content_sufficient.
AfterCandidateAlwaysScan(sufficient, last) ==
    IF last THEN "aggressive" ELSE IF sufficient THEN "sort" ELSE "loop"

\* Where the call goes after a candidate: "break" (line 90) to the sort when the
\* content is sufficient, else the next candidate, else "if not content_sufficient"
\* (line 93) to the aggressive scan.
AfterCandidate(sufficient, last) ==
    IF sufficient THEN "sort" ELSE IF last THEN "aggressive" ELSE "loop"

\* Lines 58-59: get_content_text_length on each candidate in turn; every call
\* decomposes in `soup`.
RECURSIVE FilterCandidates(_, _, _)
FilterCandidates(d, rem, cands) ==
    IF cands = <<>> THEN [rem |-> rem, kept |-> <<>>]
    ELSE LET c    == Head(cands)
             rem1 == rem \cup StrippedBy(d, rem, c)
             rest == FilterCandidates(d, rem1, Tail(cands))
         IN  [rem  |-> rest.rem,
              kept |-> (IF TextLen(d, rem1, c) > MIN_TEXT_LENGTH THEN <<c>> ELSE <<>>)
                       \o rest.kept]

\* "scored_elements.sort(key=lambda x: x[1], reverse=True)": stable, descending.
RECURSIVE RankByScore(_)
RankByScore(s) ==
    IF s = <<>> THEN <<>>
    ELSE LET r == RankByScore(Front(s))
             x == Last(s)
             n == Cardinality({k \in 1..Len(r) : r[k].score >= x.score})
         IN  SubSeq(r, 1, n) \o <<x>> \o SubSeq(r, n + 1, Len(r))

\* Mutant of Deduplicate: the "fingerprint not in processed_fingerprints" test is
\* missing.
RECURSIVE DeduplicateFresh(_, _)
DeduplicateFresh(bs, fps) ==
    IF bs = <<>> THEN [kept |-> <<>>, fps |-> fps]
    ELSE LET fp   == create_content_fingerprint(Head(bs))
             rest == DeduplicateFresh(Tail(bs), fps \cup ({fp} \ {NoFp}))
         IN  [kept |-> (IF fp # NoFp THEN <<Head(bs)>> ELSE <<>>) \o rest.kept,
              fps  |-> rest.fps]

\* Mutant of Deduplicate: the "fingerprint and" test is missing, None is one more
\* fingerprint.
RECURSIVE DeduplicateNone(_, _)
DeduplicateNone(bs, fps) ==
    IF bs = <<>> THEN [kept |-> <<>>, fps |-> fps]
    ELSE LET fp   == create_content_fingerprint(Head(bs))
             take == fp \notin fps
             rest == DeduplicateNone(Tail(bs), IF take THEN fps \cup {fp} ELSE fps)
         IN  [kept |-> (IF take THEN <<Head(bs)>> ELSE <<>>) \o rest.kept,
              fps  |-> rest.fps]

\* The deduplication loops, lines 77-82 and 98-102: the blocks kept and the
\* fingerprint set afterwards.
RECURSIVE Deduplicate(_, _)
Deduplicate(bs, fps) ==
    IF bs = <<>> THEN [kept |-> <<>>, fps |-> fps]
    ELSE LET fp   == create_content_fingerprint(Head(bs))
             take == fp # NoFp /\ fp \notin fps
             rest == Deduplicate(Tail(bs), IF take THEN fps \cup {fp} ELSE fps)
         IN  [kept |-> (IF take THEN <<Head(bs)>> ELSE <<>>) \o rest.kept,
              fps  |-> rest.fps]

\* The content list of parent p as the caller sees it: nested content items.
RECURSIVE ContentItems(_, _, _)
ContentItems(its, bs, p) ==
    LET ch == SelectSeq([k \in 1..Len(its) |-> k], LAMBDA k : its[k].parent = p)
    IN  [j \in 1..Len(ch) |->
            [type |-> its[ch[j]].type, level |-> its[ch[j]].level,
             text |-> IF its[ch[j]].type = "section" THEN <<>> ELSE bs[its[ch[j]].src].text,
             content |-> IF its[ch[j]].type = "section"
                         THEN ContentItems(its, bs, ch[j]) ELSE <<>>]]

\* The locals of a fresh call.
StartCall(r) ==
    /\ run' = r
    /\ scored_elements' = <<>>
    /\ visited' = 0
    /\ processed_blocks' = <<>>
    /\ processed_fingerprints' = {}
    /\ content_sufficient' = FALSE
    /\ aggressive_ran' = FALSE
    /\ encountered' = <<>>
    /\ blocks' = <<>>
    /\ idx' = 1
    /\ phase' = "idle"
    /\ items' = <<>>
    /\ sections_stack' = <<>>
    /\ processed' = {}

\* The call is over with outcome `out`; the caller may call again on the same soup.
Finish(out, scanned) ==
    /\ outputs' = Append(outputs, out)
    /\ IF run < MaxCalls
       THEN pc' = "find" /\ StartCall(run + 1)
       ELSE /\ pc' = "end"
            /\ aggressive_ran' = scanned
            /\ UNCHANGED <<run, scored_elements, visited, processed_blocks,
                           processed_fingerprints, content_sufficient, encountered,
                           orgVars>>

\* Lines 50-63: find the candidates, keep those with more than MIN_TEXT_LENGTH
\* characters of cleaned text, score and rank them.
FindAndRank ==
    /\ pc = "find"
    /\ LET found == find_main_content_elements(doc, removed)
           body  == FindAll(doc, removed, 0, {"body"})
           content_elements ==
               IF found # <<>> THEN found
               ELSE IF body # {} THEN <<Asc(body)[1]>> ELSE <<0>>
           f == FilterCandidates(doc, removed, content_elements)
       IN  /\ removed' = f.rem
           /\ scored_elements' =
                 RankByScore([k \in 1..Len(f.kept) |->
                     [el |-> f.kept[k],
                      score |-> score_content_element(doc, f.rem, f.kept[k])]])
           /\ pc' = IF f.kept = <<>> THEN "aggressive" ELSE "loop"
    /\ UNCHANGED <<auxVars, doc, preserve_styles, run, visited, processed_blocks,
                   processed_fingerprints, content_sufficient, aggressive_ran,
                   encountered, outputs, orgVars>>

\* One iteration of the for loop over scored_elements, lines 70-90.
ProcessCandidate ==
    /\ pc = "loop"
    /\ LET element == scored_elements[visited + 1].el
           bs == extract_content_blocks(doc, removed, element)
           dd == Deduplicate(bs, processed_fingerprints)
           pb == processed_blocks \o dd.kept
       IN  /\ processed_blocks' = pb
           /\ processed_fingerprints' = dd.fps
           /\ encountered' = encountered \o bs
           /\ content_sufficient' = Sufficient(pb)
           /\ pc' = AfterCandidate(Sufficient(pb), visited + 1 = Len(scored_elements))
    /\ visited' = visited + 1
    /\ UNCHANGED <<auxVars, doc, removed, preserve_styles, run, scored_elements, aggressive_ran,
                   outputs, orgVars>>

\* Lines 93-102: the whole-document scan, merged into processed_blocks.
AggressivePass ==
    /\ pc = "aggressive"
    /\ ~TableRaises(doc, removed)
    /\ LET bs == extract_content_aggressively(doc, removed)
           dd == Deduplicate(bs, processed_fingerprints)
       IN  /\ processed_blocks' = processed_blocks \o dd.kept
           /\ processed_fingerprints' = dd.fps
           /\ encountered' = encountered \o bs
    /\ aggressive_ran' = TRUE
    /\ pc' = "sort"
    /\ UNCHANGED <<auxVars, doc, removed, preserve_styles, run, scored_elements, visited,
                   content_sufficient, outputs, orgVars>>

\* Lines 95 and 113-115: is_data_table raises inside the scan; the except clause
\* turns it into ExtractError.
AggressiveRaises ==
    /\ pc = "aggressive"
    /\ TableRaises(doc, removed)
    /\ Finish([status |-> "ExtractError", styles |-> preserve_styles, content |-> <<>>],
              TRUE)
    /\ UNCHANGED <<auxVars, doc, removed, preserve_styles>>

\* Lines 105-108: sort by position and hand the blocks to organize_hierarchically.
SortAndOrganize ==
    /\ pc = "sort"
    /\ processed_blocks' = sort_blocks_by_position(doc, removed, processed_blocks)
    /\ blocks' = processed_blocks'
    /\ idx' = 1
    /\ phase' = "hier"
    /\ items' = <<>>
    /\ sections_stack' = <<>>
    /\ processed' = {}
    /\ pc' = "organize"
    /\ UNCHANGED <<auxVars, doc, removed, preserve_styles, run, scored_elements, visited,
                   processed_fingerprints, content_sufficient, aggressive_ran,
                   encountered, outputs>>

\* Lines 110-111: "return hierarchical_content".
Return ==
    /\ pc = "organize"
    /\ phase = "done"
    /\ Finish([status |-> "ok", styles |-> preserve_styles,
               content |-> ContentItems(items, blocks, 0)], aggressive_ran)
    /\ UNCHANGED <<auxVars, doc, removed, preserve_styles>>

ExtInit ==
    /\ doc \in Documents
    /\ removed = {}
    /\ preserve_styles \in BOOLEAN
    /\ pc = "find"
    /\ run = 1
    /\ scored_elements = <<>>
    /\ visited = 0
    /\ processed_blocks = <<>>
    /\ processed_fingerprints = {}
    /\ content_sufficient = FALSE
    /\ aggressive_ran = FALSE
    /\ encountered = <<>>
    /\ outputs = <<>>
    /\ blocks = <<>>
    /\ idx = 1
    /\ phase = "idle"
    /\ items = <<>>
    /\ sections_stack = <<>>
    /\ processed = {}

Init == ExtInit /\ IdleBut("extractor")

Next ==
    \/ FindAndRank
    \/ ProcessCandidate
    \/ AggressivePass
    \/ AggressiveRaises
    \/ SortAndOrganize
    \/ OrgHierStep
    \/ OrgHierEnd
    \/ OrgFlatStep
    \/ OrgFlatEnd
    \/ Return

Spec == Init /\ [][Next]_vars

\* ================================================================ claims
\* The content list of parent p (0: the result list) as nested records.
RECURSIVE Tree(_, _)
Tree(its, p) ==
    LET ch == SelectSeq([k \in 1..Len(its) |-> k], LAMBDA k : its[k].parent = p)
    IN  [j \in 1..Len(ch) |->
            [type |-> its[ch[j]].type, level |-> its[ch[j]].level, src |-> its[ch[j]].src,
             content |-> IF its[ch[j]].type = "section" THEN Tree(its, ch[j]) ELSE <<>>]]

\* Pre-order traversal of the tree below parent p: the src of every item that is not
\* a Section container.
RECURSIVE Preorder(_, _)
RECURSIVE Flatten(_)
Flatten(ss) == IF ss = <<>> THEN <<>> ELSE Head(ss) \o Flatten(Tail(ss))

Preorder(its, p) ==
    LET ch == SelectSeq([k \in 1..Len(its) |-> k], LAMBDA k : its[k].parent = p)
    IN  Flatten([j \in 1..Len(ch) |->
            IF its[ch[j]].type = "section" THEN Preorder(its, ch[j])
            ELSE <<its[ch[j]].src>>])

Leaf(type, level, src) == [type |-> type, level |-> level, src |-> src, content |-> <<>>]

Sec(level, src, content) ==
    [type |-> "section", level |-> level, src |-> src, content |-> content]

HierarchyDocTree ==
    << Sec(1, 1, << Leaf("heading", 1, 1),
                    Leaf("paragraph", 0, 2),
                    Sec(2, 3, <<Leaf("heading", 2, 3), Leaf("paragraph", 0, 4)>>),
                    Sec(2, 5, <<Leaf("heading", 2, 5), Leaf("paragraph", 0, 6)>>) >>) >>

\* The step of the hierarchical pass that handles a heading block.
HeadingStepOK ==
    (phase = "hier" /\ idx <= Len(blocks) /\ idx' = idx + 1
        /\ IsHeadingTag(blocks[idx].tag))
    => LET L    == HeadingLevel(blocks[idx].tag)
           n    == Len(items)
           kept == SelectSeq(sections_stack, LAMBDA e : e.level < L)
       IN  /\ Len(items') = n + 2
           /\ SubSeq(items', 1, n) = items
           /\ items'[n + 1] = Item("section", L,
                                   IF kept = <<>> THEN 0 ELSE Last(kept).section, idx)
           /\ items'[n + 2] = Item("heading", L, n + 1, idx)
           /\ sections_stack' = Append(kept, [section |-> n + 1, level |-> L])
           /\ \A k \in 1..Len(kept) : kept[k] = sections_stack[k]

\* C1: every heading block of level L closes the open sections of level >= L, opens a
\* Section of level L whose first content item is the Heading and attaches it to the
\* innermost section still open (of level < L) or to the top-level result; the blocks
\* h1, p, h2, p, h2, p yield one level-1 Section holding the h1 heading, the first
\* paragraph and two sibling level-2 Sections with their own heading and paragraph.
C1_HeadingOpensSection ==
    /\ [][HeadingStepOK]_vars
    /\ []((phase = "done" /\ blocks = MkBlocks(HierarchyDoc))
            => Tree(items, 0) = HierarchyDocTree)

C1_Witness ==
    /\ phase = "done"
    /\ blocks = MkBlocks(HierarchyDoc)
    /\ Tree(items, 0) = HierarchyDocTree

IsStrictlyIncreasing(s) == \A a, b \in 1..Len(s) : a < b => s[a] < s[b]

\* C4: a pre-order traversal of the tree lists the emitted items in the order of
\* their source blocks, each block at most once.
C4_PreorderIsBlockOrder == IsStrictlyIncreasing(Preorder(items, 0))

C4_Witness ==
    /\ phase = "done"
    /\ \E a, b, c, d \in 1..Len(items) :
          /\ items[a].type = "section" /\ items[b].type = "section"
          /\ items[b].parent = a
          /\ items[c].type = "paragraph" /\ items[c].parent = b
          /\ items[d].type = "section" /\ items[d].parent = 0 /\ d > c

\* C5: every emitted non-heading item sits in the Section opened by the most recent
\* preceding heading block, or in the top-level result when no heading precedes it;
\* a paragraph whose rendered text is empty is not emitted.
C5_NonHeadingGoesToCurrentSection ==
    /\ \A k \in 1..Len(items) :
          items[k].type \notin {"section", "heading"}
          => LET hs == {j \in 1..(items[k].src - 1) : IsHeadingTag(blocks[j].tag)}
             IN  IF hs = {} THEN items[k].parent = 0
                 ELSE /\ items[k].parent # 0
                      /\ items[items[k].parent].type = "section"
                      /\ items[items[k].parent].src \in hs
                      /\ \A j \in hs : j <= items[items[k].parent].src
    /\ \A k \in 1..Len(items) :
          blocks[items[k].src].tag = "p" => blocks[items[k].src].ext = "ok"

C5_Witness ==
    /\ phase = "done"
    /\ \E k \in 1..Len(items), j \in 1..Len(blocks) :
          /\ items[k].type = "list"
          /\ items[k].parent # 0
          /\ items[items[k].parent].level = 2
          /\ Len(sections_stack) = 1
          /\ blocks[j].tag = "p" /\ blocks[j].ext = "none" /\ j < items[k].src

\* ---------------------------------------------------------------- orchestrator
\* C2: a call never returns an empty sequence as a success.
C2_NeverEmptySuccess ==
    \A k \in 1..Len(outputs) : outputs[k].status = "ok" => outputs[k].content # <<>>

\* C3: after sort_blocks_by_position the blocks of the document stand in document
\* order (the nodes of a document are numbered in document order).
C3_SortedInDocumentOrder ==
    pc = "organize"
    => \A i, j \in 1..Len(processed_blocks) :
          (i < j /\ ~processed_blocks[i].synth /\ ~processed_blocks[j].synth)
          => processed_blocks[i].node < processed_blocks[j].node

\* C6: successive calls on the same soup with the same flag return the same.
C6_RepeatableOutput ==
    \A i, j \in 1..Len(outputs) : outputs[i] = outputs[j]

\* C7: the caller's tree is as it was before the call: nothing has been removed.
C7_InputUntouched == removed = {}

FpOf(b) == create_content_fingerprint(b)

\* The first block the passes met that carries fingerprint fp.
FirstEncountered(fp) ==
    encountered[CHOOSE k \in 1..Len(encountered) :
        /\ FpOf(encountered[k]) = fp
        /\ \A j \in 1..(k - 1) : FpOf(encountered[j]) # fp]

\* C8: processedBlocks and the output hold at most one block per fingerprint, the
\* first one met in processing order.
C8_OneBlockPerFingerprint ==
    /\ \A i, j \in 1..Len(processed_blocks) :
          i # j => FpOf(processed_blocks[i]) # FpOf(processed_blocks[j])
    /\ \A i \in 1..Len(processed_blocks) :
          /\ FpOf(processed_blocks[i]) # NoFp
          /\ processed_blocks[i] = FirstEncountered(FpOf(processed_blocks[i]))
    /\ \A a, b \in 1..Len(items) :
          (a # b /\ items[a].type # "section" /\ items[b].type # "section")
          => FpOf(blocks[items[a].src]) # FpOf(blocks[items[b].src])

C8_Witness ==
    /\ pc = "organize" /\ phase = "done" /\ items # <<>>
    /\ \E i, j \in 1..Len(encountered) :
          i < j /\ encountered[i] = encountered[j]
    /\ \E i, j \in 1..Len(encountered) :
          /\ i < j /\ FpOf(encountered[i]) = FpOf(encountered[j])
          /\ FpOf(encountered[i]) # NoFp
          /\ encountered[i].node # encountered[j].node

BlockSet(bs) == {bs[k] : k \in 1..Len(bs)}

\* C9: the candidates are visited in non-increasing score order; the loop goes on
\* while more than 5 blocks and more than 500 characters are not both reached, stops
\* at the first candidate after which they are, and nothing is added afterwards.
C9_LoopStopsWhenSufficient ==
    /\ [](\A i, j \in 1..Len(scored_elements) :
            i < j => scored_elements[i].score >= scored_elements[j].score)
    /\ [](pc = "loop"
            => /\ visited < Len(scored_elements)
               /\ ~(SumLen(processed_blocks) > 500 /\ Len(processed_blocks) > 5))
    /\ [](content_sufficient
            => SumLen(processed_blocks) > 500 /\ Len(processed_blocks) > 5)
    /\ []((pc \in {"aggressive", "sort", "organize"} /\ ~content_sufficient)
            => visited = Len(scored_elements))
    /\ [][(content_sufficient /\ run' = run)
            => /\ visited' = visited
               /\ BlockSet(processed_blocks') = BlockSet(processed_blocks)]_vars

C9_Witness ==
    /\ content_sufficient
    /\ visited >= 2
    /\ visited < Len(scored_elements)
    /\ pc = "organize"

\* C10: the aggressive scan runs if and only if the candidate loop ended without the
\* threshold being met; it keeps every block already collected and adds only blocks
\* whose fingerprint is new.
C10_AggressiveOnlyWhenInsufficient ==
    /\ [](pc = "aggressive" => ~content_sufficient)
    /\ [](pc \in {"find", "loop"} => ~aggressive_ran)
    /\ [](pc \in {"sort", "organize", "end"} => (aggressive_ran <=> ~content_sufficient))
    /\ [][(pc = "aggressive" /\ pc' = "sort")
            => /\ Len(processed_blocks') >= Len(processed_blocks)
               /\ SubSeq(processed_blocks', 1, Len(processed_blocks)) = processed_blocks
               /\ \A k \in (Len(processed_blocks) + 1)..Len(processed_blocks') :
                     /\ FpOf(processed_blocks'[k]) # NoFp
                     /\ FpOf(processed_blocks'[k]) \notin processed_fingerprints
                     /\ processed_blocks'[k]
                            \in BlockSet(extract_content_aggressively(doc, removed))]_vars

C10_Witness ==
    /\ pc = "sort"
    /\ aggressive_ran
    /\ LET fromCandidates ==
              UNION {BlockSet(extract_content_blocks(doc, removed, scored_elements[k].el)) :
                        k \in 1..visited}
       IN  /\ \E b \in BlockSet(processed_blocks) : b \in fromCandidates
           /\ \E b \in BlockSet(processed_blocks) : b \notin fromCandidates
           /\ Len(encountered) > Len(processed_blocks)

\* C11: an error local to one block never makes the call raise: every call returns.
C11_BlockErrorNeverAborts ==
    \A k \in 1..Len(outputs) : outputs[k].status = "ok"

\* A document without headings whose content is two or more plain paragraphs, each of
\* at least MIN_PARAGRAPH_LENGTH characters.
ParagraphsOnly(d) ==
    /\ Cardinality({n \in 1..Len(d) : d[n].tag = "p"}) >= 2
    /\ \A n \in 1..Len(d) :
          /\ d[n].tag \in {"html", "head", "body", "div", "article", "section", "p", "#text"}
          /\ d[n].ncp = 0
          /\ d[n].tag = "p" => TextLen(d, {}, n) >= MIN_PARAGRAPH_LENGTH

\* C12: a document with no heading and several paragraphs yields a non-empty flat
\* list of top-level paragraphs in document order.
C12_ParagraphsOnlyGivesFlatList ==
    (pc = "organize" /\ phase = "done" /\ ParagraphsOnly(doc))
    => /\ items # <<>>
       /\ \A i \in 1..Len(items) : items[i].type = "paragraph" /\ items[i].parent = 0
       /\ \A i, j \in 1..Len(items) :
             i < j => blocks[items[i].src].node < blocks[items[j].src].node

\* ================================================================ code_extractor.py
None == "None"

CODE_TAGS == {"pre", "code"}

\* An element as the code extractor reads it:
\*   name   the tag name ("" for an element that is not there)
\*   cls    the language a LANGUAGE_CLASS_PATTERNS match of its class gives, or None
\*   data   its data-language attribute, or None
\*   sniff  the language the text patterns of detect_code_language find in its
\*          get_text(), or None
CodeNode(name, cls, data, sniff) ==
    [name |-> name, cls |-> cls, data |-> data, sniff |-> sniff]

Plain(name) == CodeNode(name, None, None, None)

\* The calls of extract_code_block: the element `el`, its parent, the first <pre> and
\* the first <code> below it (direct children of `el` or below an attribute-less
\* wrapper), and what the helpers do on it:
\*   caption    what extract_code_caption(element) returns, or "raise"
\*   formatted  extract_formatted_code(code_element): "text", "blank" (nothing but
\*              whitespace) or "raise"
\*   raw        element.get_text(strip=False) and detect_code_language(element) in the
\*              fallback: "text" or "raise" (an argument that is not a Tag)
CodeCalls ==
    [el        : {CodeNode(n, c, d, t) : n \in {"pre", "code", "div"}, c \in {None, "python"},
                                         d \in {None, "go"}, t \in {None, "bash"}},
     parent    : {CodeNode("div", c, None, None) : c \in {None, "ruby"}},
     pre       : {Plain("")} \cup {CodeNode("pre", c, None, t) : c \in {None, "rust"},
                                                                  t \in {None, "php"}},
     code      : {Plain(""), Plain("code"), CodeNode("code", "css", None, None)},
     direct    : BOOLEAN,
     caption   : {None, "caption", "raise"},
     formatted : {"text", "blank", "raise"},
     raw       : {"text", "raise"}]

\* Lines 56-68: the element the code is read from.
code_element(c) ==
    IF c.el.name \in CODE_TAGS THEN c.el
    ELSE IF c.pre.name = "pre" THEN c.pre
    ELSE IF c.code.name = "code" THEN c.code
    ELSE c.el

\* The parent of code_element(c).
code_element_parent(c) ==
    IF code_element(c) = c.el THEN c.parent
    ELSE IF c.direct THEN c.el
    ELSE Plain("div")

\* detect_code_language, lines 198-265: the element's class, the parent's class, the
\* data attribute of the element, of the parent, then the text patterns.
detect_code_language(el, parent) ==
    IF el.cls # None THEN el.cls
    ELSE IF parent.cls # None THEN parent.cls
    ELSE IF el.data # None THEN el.data
    ELSE IF parent.data # None THEN parent.data
    ELSE el.sniff

CodeContent(text, language, caption) ==
    [type |-> "code_block", text |-> text, language |-> language, caption |-> caption]

\* Lines 93-98: the first fallback.
FallbackCodeContent(c) ==
    CodeContent("get_text", detect_code_language(c.el, c.parent), None)

\* extract_code_block, lines 40-107.
extract_code_block(c) ==
    IF c.caption # "raise" /\ c.formatted = "text"
    THEN CodeContent("formatted",
                     detect_code_language(code_element(c), code_element_parent(c)),
                     c.caption)
    ELSE IF c.raw # "raise" THEN FallbackCodeContent(c)
    ELSE CodeContent("Error extracting code", None, None)

CodeInit ==
    /\ code_el \in CodeCalls
    /\ code_content = <<>>
    /\ IdleBut("code")

ExtractCodeBlock ==
    /\ code_content = <<>>
    /\ code_el # <<>>
    /\ code_content' = extract_code_block(code_el)
    /\ UNCHANGED <<code_el, orgVars, extVars, textVars, listVars, tableVars, scoreVars,
                   fmtVars, pipeVars, lateVars>>

SpecCode == CodeInit /\ [][ExtractCodeBlock]_vars

\* C13: extract_code_block always returns a CodeContent: the formatted text with the
\* language and the caption; when that fails or is blank, the get_text() text with the
\* same language as the primary path detects and no caption; when that fails too, the
\* text "Error extracting code" with no language and no caption.
C13_CodeFallbackChain ==
    code_content # <<>>
    => LET language == detect_code_language(code_element(code_el),
                                            code_element_parent(code_el))
       IN  IF code_el.caption # "raise" /\ code_el.formatted = "text"
           THEN code_content = CodeContent("formatted", language, code_el.caption)
           ELSE IF code_el.raw # "raise"
           THEN code_content = CodeContent("get_text", language, None)
           ELSE code_content = CodeContent("Error extracting code", None, None)

\* ================================================================ text rendering
\* base.py, lines 13-17, and config.py, lines 19-23 (the same tags).
STYLE_TAGS ==
    {"b", "strong", "i", "em", "sup", "sub", "u", "mark", "small", "s", "del", "ins",
     "abbr", "cite", "q", "dfn", "time", "code", "var", "samp", "kbd", "span"}

MaxInline == 2

\* The content of an element: a sequence of strings T(k) and elements Tg(tag, kids).
T(k) == [tag |-> "#text", txt |-> k, kids |-> <<>>]

Tg(tag, kids) == [tag |-> tag, txt |-> 0, kids |-> kids]

InlineTags == {"b", "span", "a", "script"}

Inline1 ==
    {T(1), T(2), Tg("br", <<>>)} \cup {Tg(n, <<T(k)>>) : n \in InlineTags, k \in 1..2}

Inline2 ==
    Inline1 \cup {Tg(n, <<x>>) : n \in InlineTags,
                                 x \in {Tg(m, <<T(1)>>) : m \in InlineTags}}

\* The pieces of a rendered text, in order: a string of the element, or the markup
\* that opens or closes a tag.
Str(k) == [kind |-> "text", tag |-> "", txt |-> k]

Open(tag) == [kind |-> "open", tag |-> tag, txt |-> 0]

Close(tag) == [kind |-> "close", tag |-> tag, txt |-> 0]

\* tag.decompose() on every element with one of `tags`.
RECURSIVE Decompose(_, _)
Decompose(kids, tags) ==
    IF kids = <<>> THEN <<>>
    ELSE LET k == Head(kids)
         IN  (IF k.tag \in tags THEN <<>>
              ELSE <<[k EXCEPT !.kids = Decompose(k.kids, tags)]>>)
             \o Decompose(Tail(kids), tags)

\* tag.unwrap() on every element but those of `keep`: its children take its place. A
\* <br> becomes "\n", which the whitespace normalisation then takes away.
RECURSIVE Unwrap(_, _)
Unwrap(kids, keep) ==
    IF kids = <<>> THEN <<>>
    ELSE LET k == Head(kids)
         IN  (IF k.tag = "#text" THEN <<k>>
              ELSE IF k.tag \in keep THEN <<[k EXCEPT !.kids = Unwrap(k.kids, keep)]>>
              ELSE Unwrap(k.kids, keep))
             \o Unwrap(Tail(kids), keep)

\* soup.get_text(): the strings alone.
RECURSIVE GetText(_)
GetText(kids) ==
    IF kids = <<>> THEN <<>>
    ELSE (IF Head(kids).tag = "#text" THEN <<Str(Head(kids).txt)>>
          ELSE GetText(Head(kids).kids))
         \o GetText(Tail(kids))

\* str(soup): the strings and the markup of the elements left.
RECURSIVE Markup(_)
Markup(kids) ==
    IF kids = <<>> THEN <<>>
    ELSE (IF Head(kids).tag = "#text" THEN <<Str(Head(kids).txt)>>
          ELSE <<Open(Head(kids).tag)>> \o Markup(Head(kids).kids)
               \o <<Close(Head(kids).tag)>>)
         \o Markup(Tail(kids))

\* base.py, lines 36-84, on an element with the content `kids`.
base_get_element_text(kids, styles) ==
    GetText(Unwrap(Decompose(kids, EXCLUDE_TAGS), IF styles THEN STYLE_TAGS ELSE {}))

\* content_extractor.py, lines 9-25.
legacy_get_element_text(kids, styles) ==
    Markup(Unwrap(Unwrap(kids, (InlineTags \cup {"br"}) \ {"span"}),
                  IF styles THEN STYLE_TAGS ELSE {}))

TextInit ==
    /\ text_el \in [kids : SeqsUpTo(Inline2, MaxInline), styles : BOOLEAN]
    /\ text_out = <<>>
    /\ legacy_out = <<>>
    /\ IdleBut("text")

RenderText ==
    /\ text_el # <<>>
    /\ text_out = <<>>
    /\ text_out' = <<base_get_element_text(text_el.kids, text_el.styles)>>
    /\ UNCHANGED <<text_el, legacy_out, orgVars, extVars, codeVars, listVars,
                   tableVars, scoreVars, fmtVars, pipeVars, lateVars>>

RenderLegacy ==
    /\ text_el # <<>>
    /\ legacy_out = <<>>
    /\ legacy_out' = <<legacy_get_element_text(text_el.kids, text_el.styles)>>
    /\ UNCHANGED <<text_el, text_out, orgVars, extVars, codeVars, listVars,
                   tableVars, scoreVars, fmtVars, pipeVars, lateVars>>

TextNext == RenderText \/ RenderLegacy

SpecText == TextInit /\ [][TextNext]_vars

\* out holds <b>k</b> as literal markup.
HoldsBold(out, k) ==
    \E i \in 1..(Len(out) - 2) :
        out[i] = Open("b") /\ out[i + 1] = Str(k) /\ out[i + 2] = Close("b")

\* With styles preserved, every <b>string</b> among the children of the element is
\* in the text as markup, and no <span> is.
StylesKept(out) ==
    /\ \A i \in 1..Len(text_el.kids) : \A k \in 1..2 :
          text_el.kids[i] = Tg("b", <<T(k)>>) => HoldsBold(out, k)
    /\ \A i \in 1..Len(out) : out[i].tag # "span"

\* C14: with preserve_styles the text holds <b>bold</b> as literal markup and no
\* <span>, for the renderer of the organizer (base.py) and for the legacy one.
C14_StylesPreserved ==
    (text_el # <<>> /\ text_el.styles)
    => /\ text_out # <<>> => StylesKept(text_out[1])
       /\ legacy_out # <<>> => StylesKept(legacy_out[1])

\* ================================================================ list_extractor.py
MaxItems == 2

LIST_TAGS == {"ul", "ol"}

\* The elements of `kids` with a tag of `tags`, in order.
ChildrenNamed(kids, tags) == SelectSeq(kids, LAMBDA k : k.tag \in tags)

\* The strings of a subtree that are more than whitespace; T(0) is a string of
\* whitespace.
Strings(kids) == SelectSeq(GetText(kids), LAMBDA t : t.txt # 0)

\* get_list_text_content, lines 68-97.
RECURSIVE get_list_text_content(_, _)
get_list_text_content(kids, styles) ==
    IF kids = <<>> THEN <<>>
    ELSE LET k == Head(kids)
         IN  (IF k.tag = "#text" THEN Strings(<<k>>)
              ELSE IF k.tag \in LIST_TAGS THEN <<>>
              ELSE IF styles /\ k.tag \in {"b", "strong", "i", "em", "u", "code"}
                   THEN Markup(<<k>>)
              ELSE Strings(k.kids))
             \o get_list_text_content(Tail(kids), styles)

\* Mutant of FirstNested: the last nested list is taken.
LastNested(nested_lists) == nested_lists[Len(nested_lists)]

\* "nested_list = nested_lists[0]", line 121.
FirstNested(nested_lists) == nested_lists[1]

ListItem(text, type, list_type, its) ==
    [text |-> text, type |-> type, list_type |-> list_type, items |-> its]

\* extract_list_items, lines 100-134, on the list with the children `kids`.
RECURSIVE extract_list_items(_, _)
extract_list_items(kids, styles) ==
    LET lis == ChildrenNamed(kids, {"li"})
        item(li) ==
            LET text         == get_list_text_content(li.kids, styles)
                nested_lists == ChildrenNamed(li.kids, LIST_TAGS)
                nested_list  == FirstNested(nested_lists)
                nested_items == IF nested_lists = <<>> THEN <<>>
                                ELSE extract_list_items(nested_list.kids, styles)
            IN  IF nested_items # <<>>
                THEN ListItem(text, "sublist",
                              IF nested_list.tag = "ol" THEN "ordered" ELSE "unordered",
                              nested_items)
                ELSE ListItem(text, None, None, <<>>)
    IN  [i \in 1..Len(lis) |-> item(lis[i])]

\* The lists the function is called on. The strings of a list of Lists0 are T(1),
\* those an <li> of Lists1 adds are T(2), those of Lists2 T(3).
Li0 == {Tg("li", k) : k \in {<<>>, <<T(0)>>, <<T(1)>>, <<Tg("b", <<T(1)>>)>>}}

Lists0 ==
    {Tg(t, k) : t \in LIST_TAGS,
                k \in SeqsUpTo(Li0, MaxItems) \cup {<<Tg("div", <<Tg("li", <<T(1)>>)>>)>>}}

Li1 ==
    Li0 \cup {Tg("li", <<T(2), a>>) : a \in Lists0}
        \cup {Tg("li", <<a, Tg("ol", <<Tg("li", <<T(2)>>)>>)>>) : a \in Lists0}
        \cup {Tg("li", <<Tg("div", <<a>>)>>) : a \in Lists0}

Lists1 == {Tg(t, k) : t \in LIST_TAGS, k \in SeqsUpTo(Li1, 1)}

Lists2 ==
    {Tg("ul", <<Tg("li", <<T(3), a>>)>>) :
        a \in {l \in Lists1 : l.tag = "ol" /\ Len(l.kids) = 1}}

ListInit ==
    /\ list_element \in [list : Lists1 \cup Lists2, styles : BOOLEAN]
    /\ list_items = <<>>
    /\ IdleBut("list")

ExtractListItems ==
    /\ list_element # <<>>
    /\ list_items = <<>>
    /\ list_items' = <<extract_list_items(list_element.list.kids, list_element.styles)>>
    /\ UNCHANGED <<list_element, orgVars, extVars, codeVars, textVars, tableVars,
                   scoreVars, fmtVars, pipeVars, lateVars>>

SpecList == ListInit /\ [][ExtractListItems]_vars

\* The string identities below kids.
StringIds(kids) == {GetText(kids)[i].txt : i \in 1..Len(GetText(kids))}

\* What the statement asks of the items returned for the list with children `kids`.
RECURSIVE ListItemsOK(_, _)
ListItemsOK(kids, its) ==
    LET lis == ChildrenNamed(kids, {"li"})
    IN  /\ Len(its) = Len(lis)
        /\ \A i \in 1..Len(lis) :
              LET nested == ChildrenNamed(lis[i].kids, LIST_TAGS)
                  first  == nested[1]
                  has    == nested # <<>> /\ ChildrenNamed(first.kids, {"li"}) # <<>>
                  own    == SelectSeq(lis[i].kids, LAMBDA k : k.tag \notin LIST_TAGS)
              IN  /\ \A j \in 1..Len(its[i].text) :
                        its[i].text[j].kind = "text"
                        => /\ its[i].text[j].txt \notin StringIds(nested)
                           /\ its[i].text[j].txt # 0
                  /\ {its[i].text[j].txt : j \in 1..Len(its[i].text)} \ {0}
                        = StringIds(own) \ {0}
                  /\ (its[i].type = "sublist") <=> has
                  /\ has => /\ its[i].list_type
                                 = (IF first.tag = "ol" THEN "ordered" ELSE "unordered")
                            /\ its[i].items # <<>>
                            /\ ListItemsOK(first.kids, its[i].items)
                  /\ ~has => its[i].type = None /\ its[i].items = <<>>

\* C15: one item per direct <li> in order; an item has a sublist exactly when its
\* <li> has a direct ul/ol whose first one yields an item, and then it is that first
\* list's, never empty; the item's text leaves out its direct nested lists; at every
\* depth.
C15_ListItems ==
    list_items # <<>> => ListItemsOK(list_element.list.kids, list_items[1])

\* A list three levels deep, and an <li> whose second nested list is dropped.
C15_Witness ==
    /\ list_items # <<>>
    /\ \/ /\ Len(list_items[1]) = 1
          /\ list_items[1][1].type = "sublist"
          /\ list_items[1][1].items[1].type = "sublist"
       \/ /\ Len(list_items[1]) = 1
          /\ Len(ChildrenNamed(list_element.list.kids[1].kids, LIST_TAGS)) = 2
          /\ list_items[1][1].type = "sublist"
          /\ list_items[1][1].list_type = "unordered"

\* ================================================================ table_extractor.py
MaxRows == 2

\* A <tr> is the sequence of the tags of its cells. A table is
\*   rows      its <tr> in document order
\*   thead     it has a <thead>, which holds the first <tr>
\*   tbody, tfoot, caption, summary   it has that element / attribute
\*   role      its role attribute, or None
\*   border    its border attribute, or None
RowKinds ==
    {<<>>, <<"th">>, <<"td">>, <<"th", "th">>, <<"th", "td">>, <<"td", "td">>,
     <<"td", "td", "td">>}

Tables ==
    {t \in [rows : SeqsUpTo(RowKinds, MaxRows), thead : BOOLEAN, tbody : BOOLEAN,
            tfoot : BOOLEAN, caption : BOOLEAN, summary : BOOLEAN,
            role : {None, "grid"}, border : {None, "0", "1", "yes"}] :
        t.thead => t.rows # <<>>}

\* The text of cell c of row r.
CellText(r, c) == <<r, c>>

\* The texts of the cells of row r that have a tag of `tags`.
CellTexts(rows, r, tags) ==
    LET cs == SelectSeq([c \in 1..Len(rows[r]) |-> c], LAMBDA c : rows[r][c] \in tags)
    IN  [j \in 1..Len(cs) |-> CellText(r, cs[j])]

HasCell(row, tag) == \E c \in 1..Len(row) : row[c] = tag

\* "caption", "headers" (<<>> for None, else <<the list>>) and "rows" of the dict
\* returned; type None stands for a returned None.
TableContent(caption, headers, rows) ==
    [type |-> "table", caption |-> caption, headers |-> headers, rows |-> rows]

NoTable == [type |-> None, caption |-> None, headers |-> <<>>, rows |-> <<>>]

\* "if first_row and first_row.find("th")", line 83.
FirstRowHasHeaders(row) == HasCell(row, "th")

\* extract_table, lines 48-129.
extract_table(t) ==
    LET caption  == IF t.caption THEN "caption" ELSE None
        in_thead == IF t.thead THEN CellTexts(t.rows, 1, {"th", "td"}) ELSE <<>>
        headers  == IF in_thead # <<>> THEN <<in_thead>>
                    ELSE IF t.rows # <<>> /\ FirstRowHasHeaders(t.rows[1])
                    THEN <<CellTexts(t.rows, 1, {"th"})>>
                    ELSE <<>>
        start_idx == IF /\ headers # <<>>
                        /\ t.rows # <<>>
                        /\ ~t.thead
                        /\ HasCell(t.rows[1], "th")
                        /\ ~HasCell(t.rows[1], "td")
                     THEN 1 ELSE 0
        kept     == SelectSeq([r \in 1..Len(t.rows) |-> r],
                              LAMBDA r : r > start_idx /\ t.rows[r] # <<>>)
        rows     == [j \in 1..Len(kept) |-> CellTexts(t.rows, kept[j], {"td", "th"})]
    IN  IF rows = <<>> THEN NoTable ELSE TableContent(caption, headers, rows)

\* What a call of is_data_table does: it returns `value`, or it raises.
Returned(value) == [raised |-> FALSE, value |-> value]

Raised == [raised |-> TRUE, value |-> FALSE]

\* is_data_table, lines 173-216. int() raises on a border that is no number;
\* table.has_attr("role") == "grid" compares a bool with a string and is never true.
is_data_table(t) ==
    LET cell_counts == {Len(t.rows[r]) : r \in 1..Len(t.rows)}
    IN  IF (\E r \in 1..Len(t.rows) : HasCell(t.rows[r], "th")) \/ t.thead
        THEN Returned(TRUE)
        ELSE IF t.caption THEN Returned(TRUE)
        ELSE IF Len(t.rows) <= 1 THEN Returned(FALSE)
        ELSE IF Cardinality(cell_counts) = 1 /\ Len(t.rows[1]) > 1 THEN Returned(TRUE)
        ELSE IF t.border = "yes" THEN Raised
        ELSE IF t.border = "1" THEN Returned(TRUE)
        ELSE IF t.tbody \/ t.tfoot \/ t.summary THEN Returned(TRUE)
        ELSE Returned(FALSE)

TableInit ==
    /\ table \in Tables
    /\ table_content = <<>>
    /\ data_table = <<>>
    /\ IdleBut("table")

ExtractTable ==
    /\ table # <<>>
    /\ table_content = <<>>
    /\ table_content' = <<extract_table(table)>>
    /\ UNCHANGED <<table, data_table, orgVars, extVars, codeVars, textVars, listVars,
                   scoreVars, fmtVars, pipeVars, lateVars>>

IsDataTable ==
    /\ table # <<>>
    /\ data_table = <<>>
    /\ data_table' = <<is_data_table(table)>>
    /\ UNCHANGED <<table, table_content, orgVars, extVars, codeVars, textVars, listVars,
                   scoreVars, fmtVars, pipeVars, lateVars>>

TableNext == ExtractTable \/ IsDataTable

SpecTable == TableInit /\ [][TableNext]_vars

\* The rows from row `from` on that have a cell, as texts.
RowsFrom(t, from) ==
    LET kept == SelectSeq([r \in 1..Len(t.rows) |-> r],
                          LAMBDA r : r >= from /\ t.rows[r] # <<>>)
    IN  [j \in 1..Len(kept) |-> CellTexts(t.rows, kept[j], {"td", "th"})]

\* C16: without <thead>, the first row gives the headers, and is left out of the
\* rows, exactly when it has a <th> and no <td>; otherwise there are no headers and
\* the row is among the rows; None is returned exactly when no row with a cell is left.
C16_FirstRowHeaderRule ==
    (table_content # <<>> /\ ~table.thead)
    => LET out    == table_content[1]
           header == /\ table.rows # <<>>
                     /\ HasCell(table.rows[1], "th")
                     /\ ~HasCell(table.rows[1], "td")
           left   == RowsFrom(table, IF header THEN 2 ELSE 1)
       IN  /\ out = NoTable <=> left = <<>>
           /\ out # NoTable
              => /\ out.rows = left
                 /\ out.headers = IF header THEN <<CellTexts(table.rows, 1, {"th"})>>
                                  ELSE <<>>

\* C17: is_data_table is true exactly when the table has a th, thead, tbody, tfoot
\* or caption, a summary attribute, role=grid, a border greater than 0, or at least
\* two rows that all have the same number of cells, more than one.
C17_DataTableConditions ==
    (data_table # <<>> /\ ~data_table[1].raised)
    => (data_table[1].value
        <=> \/ \E r \in 1..Len(table.rows) : HasCell(table.rows[r], "th")
            \/ table.thead \/ table.tbody \/ table.tfoot \/ table.caption
            \/ table.summary
            \/ table.role = "grid"
            \/ table.border = "1"
            \/ /\ Len(table.rows) >= 2
               /\ \A r \in 1..Len(table.rows) : Len(table.rows[r]) = Len(table.rows[1])
               /\ Len(table.rows[1]) > 1)

\* ================================================================ the scorer alone
\* len(NON_CONTENT_PATTERNS), content_scorer.py 23-27.
NON_CONTENT_PATTERN_COUNT == 3

MaxScored == 3

\* <tag class=... id=...> with k paragraphs of len characters, the last of them
\* inside an <a> when `linked`; the class or id matches ncp non-content patterns.
ScoredDoc(tag, ccls, cid, ncp, k, len, linked) ==
    Pre \o <<[El(tag, 3) EXCEPT !.ccls = ccls, !.cid = cid, !.ncp = ncp]>>
        \o Paras(4, 5, k, len, 0)
        \o (IF linked THEN <<El("a", 4), Text(5 + 2 * k, 2 * len, 50)>> ELSE <<>>)

ScoreInit ==
    /\ score_el \in {[d |-> ScoredDoc(tag, ccls, cid, ncp, k, len, linked), n |-> 4] :
                        tag \in {"div", "article"}, ccls \in BOOLEAN, cid \in BOOLEAN,
                        ncp \in 0..NON_CONTENT_PATTERN_COUNT, k \in 0..MaxScored,
                        len \in ParaLengths, linked \in BOOLEAN}
    /\ score_out = <<>>
    /\ IdleBut("score")

ScoreElement ==
    /\ score_el # <<>>
    /\ score_out = <<>>
    /\ score_out' = <<score_content_element(score_el.d, {}, score_el.n)>>
    /\ UNCHANGED <<score_el, orgVars, extVars, codeVars, textVars, listVars, tableVars,
                   fmtVars, pipeVars, lateVars>>

SpecScore == ScoreInit /\ [][ScoreElement]_vars

\* The score of the element of score_el with attribute changes applied.
ScoreWith(ccls, cid, ncp) ==
    score_content_element(
        [score_el.d EXCEPT ![score_el.n].ccls = ccls, ![score_el.n].cid = cid,
                           ![score_el.n].ncp = ncp],
        {}, score_el.n)

\* C18: the score is never negative; the non-content penalty takes 5 points off at
\* most once, whatever the number of patterns matched; the class bonus and the id
\* bonus add 3 points at most once each.
C18_ScoreFloorAndSinglePenalty ==
    score_out # <<>>
    => LET e == score_el.d[score_el.n]
       IN  /\ score_out[1] >= 0
           /\ score_out[1] >= ScoreWith(e.ccls, e.cid, 0) - 5 * SCORE_UNIT
           /\ score_out[1] <= ScoreWith(FALSE, e.cid, e.ncp) + 3 * SCORE_UNIT
           /\ score_out[1] <= ScoreWith(e.ccls, FALSE, e.ncp) + 3 * SCORE_UNIT

\* ================================================================ extract_formatted_code
\* A string is a sequence of characters; these are the characters of the inputs.
MaxChars == 6

CodeChars == {" ", "x", "\n", "\r"}

WHITESPACE == {" ", "\t", "\n", "\r"}

RECURSIVE StringsUpTo(_)
StringsUpTo(n) ==
    IF n = 0 THEN {<<>>}
    ELSE LET shorter == StringsUpTo(n - 1)
         IN  shorter \cup {Append(s, c) : s \in {t \in shorter : Len(t) = n - 1}, c \in CodeChars}

\* re.sub(r'\r\n|\r', '\n', raw_text)
RECURSIVE NormalizeLineBreaks(_)
NormalizeLineBreaks(s) ==
    IF s = <<>> THEN <<>>
    ELSE IF Len(s) >= 2 /\ s[1] = "\r" /\ s[2] = "\n"
         THEN <<"\n">> \o NormalizeLineBreaks(SubSeq(s, 3, Len(s)))
    ELSE IF s[1] = "\r" THEN <<"\n">> \o NormalizeLineBreaks(Tail(s))
    ELSE <<s[1]>> \o NormalizeLineBreaks(Tail(s))

\* content.split('\n'): always at least one line.
RECURSIVE Split(_)
Split(s) ==
    IF \A i \in 1..Len(s) : s[i] # "\n" THEN <<s>>
    ELSE LET i == CHOOSE j \in 1..Len(s) : s[j] = "\n" /\ \A m \in 1..(j - 1) : s[m] # "\n"
         IN  <<SubSeq(s, 1, i - 1)>> \o Split(SubSeq(s, i + 1, Len(s)))

\* '\n'.join(lines)
RECURSIVE Join(_)
Join(lines) ==
    IF lines = <<>> THEN <<>>
    ELSE IF Len(lines) = 1 THEN lines[1]
    ELSE lines[1] \o <<"\n">> \o Join(Tail(lines))

\* len(line) - len(line.lstrip())
RECURSIVE Indent(_)
Indent(line) ==
    IF line = <<>> \/ line[1] \notin WHITESPACE THEN 0 ELSE 1 + Indent(Tail(line))

\* not line.strip()
IsBlank(line) == \A i \in 1..Len(line) : line[i] \in WHITESPACE

\* content.strip('\n'): newline characters only, at both ends.
RECURSIVE StripNewlines(_)
StripNewlines(s) ==
    IF s = <<>> THEN <<>>
    ELSE IF s[1] = "\n" THEN StripNewlines(Tail(s))
    ELSE IF s[Len(s)] = "\n" THEN StripNewlines(SubSeq(s, 1, Len(s) - 1))
    ELSE s

\* <<the minimum indent of the non-blank lines>>, <<>> (None) when there is none.
CommonIndent(lines) ==
    LET indents == {Indent(lines[i]) : i \in {j \in 1..Len(lines) : ~IsBlank(lines[j])}}
    IN  IF indents = {} THEN <<>> ELSE <<CHOOSE m \in indents : \A k \in indents : m <= k>>

extract_formatted_code(raw) ==
    LET content       == NormalizeLineBreaks(raw)
        lines         == Split(content)
        common_indent == CommonIndent(lines)
        formatted_lines ==
            [i \in 1..Len(lines) |->
                IF ~IsBlank(lines[i])
                THEN SubSeq(lines[i], Min(common_indent[1], Indent(lines[i])) + 1, Len(lines[i]))
                ELSE lines[i]]
        dedented == IF common_indent # <<>> /\ common_indent[1] > 0
                    THEN Join(formatted_lines) ELSE content
    IN  StripNewlines(dedented)

FormatInit ==
    /\ raw_text \in {<<s>> : s \in StringsUpTo(MaxChars)}
    /\ formatted = <<>>
    /\ IdleBut("format")

ExtractFormattedCode ==
    /\ raw_text # <<>>
    /\ formatted = <<>>
    /\ formatted' = <<extract_formatted_code(raw_text[1])>>
    /\ UNCHANGED <<raw_text, orgVars, extVars, codeVars, textVars, listVars, tableVars,
                   scoreVars, pipeVars, lateVars>>

SpecFormat == FormatInit /\ [][ExtractFormattedCode]_vars

\* The non-blank lines of a sequence of lines, in order.
RECURSIVE NonBlank(_)
NonBlank(lines) ==
    IF lines = <<>> THEN <<>>
    ELSE (IF IsBlank(lines[1]) THEN <<>> ELSE <<lines[1]>>) \o NonBlank(Tail(lines))

\* Every non-blank line lost exactly the minimum indent: some non-blank line has
\* indent 0 and the lines differ in indent as they did before.
Dedented(before, after) ==
    /\ Len(after) = Len(before)
    /\ before # <<>> => \E i \in 1..Len(after) : Indent(after[i]) = 0
    /\ \A i \in 1..Len(before) :
          after[i] = SubSeq(before[i], Indent(before[i]) - Indent(after[i]) + 1, Len(before[i]))
    /\ \A i, j \in 1..Len(before) :
          Indent(after[i]) - Indent(after[j]) = Indent(before[i]) - Indent(before[j])

\* C19: the non-blank lines are dedented by the minimum common indent (one of them
\* ends at indent 0, relative indents unchanged), and the block returned neither
\* starts nor ends with a blank line.
C19_DedentAndTrimBlankLines ==
    formatted # <<>>
    => LET before == Split(NormalizeLineBreaks(raw_text[1]))
           after  == Split(formatted[1])
       IN  /\ Dedented(NonBlank(before), NonBlank(after))
           /\ formatted[1] # <<>> => ~IsBlank(after[1]) /\ ~IsBlank(after[Len(after)])

\* ================================================================ the pipeline runners
\* run_pipeline of core/pipeline_stages/base.py, run_pipeline of core/pipeline.py and
\* the synchronous Pipeline.process of the older package.
Runners == {"pipeline_stages", "pipeline", "legacy"}

MaxStages == 3

\* The stage classes of Pipeline.create_default; stage i leaves a key of its name.
StageNames == <<"FetchStage", "ParseStage", "ExtractStage", "TransformStage", "ExportStage">>

\* The caller's mapping is the first object.
CALLER == 1

InitialContexts ==
    {{"url"}, {"url", "timings"}, {"url", "errors"}, {"url", "start_time"}}

Event(ev, stage, ctx) == [ev |-> ev, stage |-> stage, ctx |-> ctx]

\* The runner goes on with the caller's mapping itself.
Alias(ctxs, id) == [contexts |-> ctxs, id |-> id]

\* initial_context.copy(): a new mapping with the same keys.
Copy(ctxs, id) == [contexts |-> Append(ctxs, ctxs[id]), id |-> Len(ctxs) + 1]

\* current_context.setdefault(key, ...)
SetDefault(ctxs, id, key) == [ctxs EXCEPT ![id] = @ \cup {key}]

PipelineInit ==
    /\ runner \in Runners
    /\ stages \in 0..MaxStages
    /\ initial_context \in InitialContexts
    /\ contexts = <<initial_context>>
    /\ current_context = 0
    /\ stage_index = 0
    /\ pipeline_pc = "start"
    /\ pipeline_log = <<>>
    /\ IdleBut("pipeline")

PipeOthers ==
    <<orgVars, extVars, codeVars, textVars, listVars, tableVars, scoreVars, fmtVars, lateVars>>

\* The lines before the loop.
Begin ==
    /\ pipeline_pc = "start"
    /\ LET copied == Copy(contexts, CALLER)
       IN  /\ current_context' = copied.id
           /\ contexts' = IF runner = "pipeline_stages"
                          THEN SetDefault(copied.contexts, copied.id, "timings")
                          ELSE copied.contexts
    /\ stage_index' = 1
    /\ pipeline_pc' = "loop"
    /\ UNCHANGED <<runner, stages, initial_context, pipeline_log, PipeOthers>>

\* stage.process(current_context) is called (create_task in the async runners).
StartStage ==
    /\ pipeline_pc = "loop"
    /\ stage_index <= stages
    /\ pipeline_log' = Append(pipeline_log, Event("start", stage_index, current_context))
    /\ pipeline_pc' = "running"
    /\ UNCHANGED <<runner, stages, initial_context, contexts, current_context, stage_index,
                   PipeOthers>>

\* The exception handler: the error is recorded in the context held, then re-raised.
Fail(ctxs, id, ev) ==
    /\ contexts' = SetDefault(ctxs, id, "errors")
    /\ pipeline_log' = Append(pipeline_log, Event(ev, stage_index, id))
    /\ pipeline_pc' = "raised"
    /\ UNCHANGED stage_index

\* The stage returns a context: the mapping it received, or a new one (which may
\* lack the "timings" entry the runner of pipeline_stages writes to afterwards).
StageReturns ==
    /\ pipeline_pc = "running"
    /\ \E fresh \in BOOLEAN, keeps \in BOOLEAN :
          LET written  == [contexts EXCEPT ![current_context] = @ \cup {StageNames[stage_index]}]
              returned == IF fresh
                          THEN Append(contexts, (contexts[current_context]
                                                 \cup {StageNames[stage_index]})
                                                \ (IF keeps THEN {} ELSE {"timings"}))
                          ELSE written
              id       == IF fresh THEN Len(contexts) + 1 ELSE current_context
          IN  /\ fresh \/ keeps
              /\ current_context' = id
              /\ IF runner = "pipeline_stages" /\ "timings" \notin returned[id]
                 THEN Fail(returned, id, "error")
                 ELSE /\ contexts' = returned
                      /\ pipeline_log' = Append(pipeline_log, Event("done", stage_index, id))
                      /\ stage_index' = stage_index + 1
                      /\ pipeline_pc' = "loop"
    /\ UNCHANGED <<runner, stages, initial_context, PipeOthers>>

\* The stage raises, having written to the mapping it received or not.
StageRaises ==
    /\ pipeline_pc = "running"
    /\ \E touched \in BOOLEAN :
          Fail(IF touched
               THEN [contexts EXCEPT ![current_context] = @ \cup {StageNames[stage_index]}]
               ELSE contexts, current_context, "fail")
    /\ UNCHANGED <<runner, stages, initial_context, current_context, PipeOthers>>

\* asyncio.wait_for gives up: the task is cancelled and TimeoutError raised.
StageTimesOut ==
    /\ pipeline_pc = "running"
    /\ runner # "legacy"
    /\ \E touched \in BOOLEAN :
          Fail(IF touched
               THEN [contexts EXCEPT ![current_context] = @ \cup {StageNames[stage_index]}]
               ELSE contexts, current_context, "timeout")
    /\ UNCHANGED <<runner, stages, initial_context, current_context, PipeOthers>>

\* The loop is over: the context held is returned.
ReturnContext ==
    /\ pipeline_pc = "loop"
    /\ stage_index > stages
    /\ contexts' = IF runner = "pipeline_stages" /\ "start_time" \in contexts[current_context]
                   THEN SetDefault(contexts, current_context, "total_time")
                   ELSE contexts
    /\ pipeline_pc' = "returned"
    /\ UNCHANGED <<runner, stages, initial_context, current_context, stage_index,
                   pipeline_log, PipeOthers>>

PipelineNext ==
    \/ Begin
    \/ StartStage
    \/ StageReturns
    \/ StageRaises
    \/ StageTimesOut
    \/ ReturnContext

SpecPipeline == PipelineInit /\ [][PipelineNext]_vars

MaxSteps == 3

\* run_in_thread calls a stage may make: parse_html; extract_content_hierarchically
\* and _extract_fallback; export_document.
ThreadCalls(stage) ==
    CASE stage = "ParseStage"   -> {1}
      [] stage = "ExtractStage" -> {1, 2}
      [] stage = "ExportStage"  -> {1}
      [] OTHER                  -> {0}

Worker(state, steps) == [state |-> state, steps |-> steps]

EarlyVars ==
    <<orgVars, extVars, codeVars, textVars, listVars, tableVars, scoreVars, fmtVars, pipeVars>>

TmOthers == <<EarlyVars, stageVars, bulkVars, urlVars>>

TimeoutInit ==
    /\ tm_stage \in {StageNames[i] : i \in 1..Len(StageNames)}
    /\ tm_executor \in {"shared", "own"}
    /\ tm_calls \in ThreadCalls(tm_stage)
    /\ tm_task = "running"
    /\ tm_worker = Worker("idle", 0)
    /\ tm_pipeline = "waiting"
    /\ tm_late = FALSE
    /\ IdleBut("timeout")

\* loop.run_in_executor(executor, lambda: func(*args, **kwargs)) and the await on it.
Dispatch ==
    /\ tm_task = "running"
    /\ tm_calls > 0
    /\ tm_worker.state # "running"
    /\ tm_worker' = Worker("running", 0)
    /\ tm_task' = "in_thread"
    /\ UNCHANGED <<tm_stage, tm_executor, tm_calls, tm_pipeline, tm_late, TmOthers>>

\* The function in the pool thread reads or writes the soup or the context once more.
WorkerStep ==
    /\ tm_worker.state = "running"
    /\ tm_worker.steps < MaxSteps
    /\ tm_worker' = Worker("running", tm_worker.steps + 1)
    /\ tm_late' = (tm_late \/ tm_pipeline = "raised")
    /\ UNCHANGED <<tm_stage, tm_executor, tm_calls, tm_task, tm_pipeline, TmOthers>>

\* The function returns in its thread.
WorkerFinish ==
    /\ tm_worker.state = "running"
    /\ tm_worker' = Worker("finished", tm_worker.steps)
    /\ UNCHANGED <<tm_stage, tm_executor, tm_calls, tm_task, tm_pipeline, tm_late, TmOthers>>

\* The await on the executor's future completes; the coroutine goes on.
Resume ==
    /\ tm_task = "in_thread"
    /\ tm_worker.state = "finished"
    /\ tm_task' = "running"
    /\ tm_calls' = tm_calls - 1
    /\ UNCHANGED <<tm_stage, tm_executor, tm_worker, tm_pipeline, tm_late, TmOthers>>

\* The stage returns its context and wait_for hands it to the loop.
StageCompletes ==
    /\ tm_pipeline = "waiting"
    /\ tm_task = "running"
    /\ tm_calls = 0
    /\ tm_task' = "returned"
    /\ tm_pipeline' = "returned"
    /\ UNCHANGED <<tm_stage, tm_executor, tm_calls, tm_worker, tm_late, TmOthers>>

\* wait_for's timeout expires and the task is cancelled at its await.  A stage
\* without an executor is inside `async with get_thread_pool()`, whose exit calls
\* executor.shutdown(wait=True) and so waits for the thread; a stage with the shared
\* executor only drops its await.
TimeoutExpires ==
    /\ tm_pipeline = "waiting"
    /\ tm_task \in {"running", "in_thread"}
    /\ tm_task' = IF tm_task = "in_thread" /\ tm_executor = "own"
                     /\ tm_worker.state = "running"
                  THEN "cancelling" ELSE "cancelled"
    /\ UNCHANGED <<tm_stage, tm_executor, tm_calls, tm_worker, tm_pipeline, tm_late, TmOthers>>

\* shutdown(wait=True) returns once the thread has finished.
ShutdownReturns ==
    /\ tm_task = "cancelling"
    /\ tm_worker.state = "finished"
    /\ tm_task' = "cancelled"
    /\ UNCHANGED <<tm_stage, tm_executor, tm_calls, tm_worker, tm_pipeline, tm_late, TmOthers>>

\* The cancelled task is awaited, the error recorded and TimeoutError raised.
RaiseTimeout ==
    /\ tm_pipeline = "waiting"
    /\ tm_task = "cancelled"
    /\ tm_pipeline' = "raised"
    /\ UNCHANGED <<tm_stage, tm_executor, tm_calls, tm_task, tm_worker, tm_late, TmOthers>>

TimeoutNext ==
    \/ Dispatch
    \/ WorkerStep
    \/ WorkerFinish
    \/ Resume
    \/ StageCompletes
    \/ TimeoutExpires
    \/ ShutdownReturns
    \/ RaiseTimeout

SpecTimeout == TimeoutInit /\ [][TimeoutNext]_vars

\* C21: once run_pipeline has raised for a timeout, nothing of the timed-out stage is
\* still executing: its function in the pool thread is not running and has not
\* worked on the context or the DOM since the raise.
C21_NothingRunsAfterTimeout ==
    tm_pipeline = "raised" => tm_worker.state # "running" /\ ~tm_late

\* ================================================================ ExtractStage.process
\* The stage around the first call of extract_content_hierarchically on the soup.
Para(text) == [type |-> "paragraph", level |-> 0, text |-> text, content |-> <<>>]

Heading(level, text) == [type |-> "heading", level |-> level, text |-> text, content |-> <<>>]

CodeBlock(text) == [type |-> "code_block", level |-> 0, text |-> text, content |-> <<>>]

\* p.get_text(strip=True): the strings of the element, in order.
StringsOf(d, rem, n) ==
    LET ts == Asc(TextNodes(d, rem, n)) IN [k \in 1..Len(ts) |-> d[ts[k]].txt]

\* _extract_fallback: every <p> with text, then every heading with text, then a code
\* block for every <pre>.
extract_fallback(d, rem) ==
    LET ps   == Asc({n \in FindAll(d, rem, 0, {"p"}) : TextLen(d, rem, n) > 0})
        hs   == Asc({n \in FindAll(d, rem, 0, {HeadingTags[l] : l \in 1..Len(HeadingTags)}) :
                          TextLen(d, rem, n) > 0})
        pres == Asc(FindAll(d, rem, 0, {"pre"}))
    IN  [k \in 1..Len(ps) |-> Para(StringsOf(d, rem, ps[k]))]
        \o [k \in 1..Len(hs) |-> Heading(HeadingLevel(d[hs[k]].tag), StringsOf(d, rem, hs[k]))]
        \o [k \in 1..Len(pres) |-> CodeBlock(StringsOf(d, rem, pres[k]))]

\* The test of lines 63 and 74 always passes.
NeverNoContent(content) == FALSE

\* "if not content"
NoContent(content) == content = <<>>

StageInit ==
    /\ ExtInit
    /\ stage_context = [keys |-> {"url", "soup", "preserve_styles"}, soup |-> "soup"]
    /\ stage_content = <<>>
    /\ stage_outcome = "pending"
    /\ IdleBut("stage")

\* lines 43-94, from the return of the first call on.
ExtractStageProcess ==
    /\ stage_outcome = "pending"
    /\ Len(outputs) = 1
    /\ LET first    == outputs[1]
           fallback == extract_fallback(doc, removed)
           content  == IF NoContent(first.content) THEN fallback ELSE first.content
           cleared  == [stage_context EXCEPT !.soup = None]
       IN  IF first.status # "ok" \/ (NoContent(first.content) /\ NoContent(fallback))
           THEN /\ stage_outcome' = "ExtractError"
                /\ stage_context' = cleared
                /\ stage_content' = <<>>
           ELSE /\ stage_outcome' = "returned"
                /\ stage_context' =
                       [cleared EXCEPT !.keys = @ \cup {"content", "extract_time"}]
                /\ stage_content' = <<content>>
    /\ UNCHANGED <<orgVars, extVars, codeVars, textVars, listVars, tableVars, scoreVars,
                   fmtVars, pipeVars, tmVars, bulkVars, urlVars>>

\* The stage awaits the first call; what follows the stage is not part of it.
StageNext ==
    \/ outputs = <<>> /\ Next
    \/ ExtractStageProcess

SpecStage == StageInit /\ [][StageNext]_vars

FlatItemType(b) ==
    CASE b.tag = "p" /\ b.ext = "ok" -> "paragraph"
      [] b.tag \in {"ul", "ol"} -> "list"
      [] IsHeadingTag(b.tag) -> "heading"
      [] b.tag = "blockquote" -> "blockquote"
      [] b.tag = "pre" \/ (b.tag = "div" /\ b.pre) -> "code_block"
      [] b.tag = "table" /\ b.ext = "ok" -> "table"
      [] OTHER -> ""

\* C23: the flat pass starts exactly when the hierarchical pass ends with an empty
\* top-level result and a non-empty block list; each of its steps appends the bare
\* item of a recognized block to the top-level list and skips any other block, so
\* the output holds no section.
C23_FlatPassEmitsRecognizedOnly ==
    [][/\ (phase = "hier" /\ phase' # "hier")
          => (phase' = "flat" <=> (ChildrenOf(items, 0) = {} /\ blocks # <<>>))
       /\ (phase = "flat" /\ idx' = idx + 1)
          => LET b  == blocks[idx]
                 ty == FlatItemType(b)
             IN  items' = IF ty = "" THEN items
                          ELSE Append(items,
                                   Item(ty, IF ty = "heading" THEN HeadingLevel(b.tag) ELSE 0,
                                        0, idx))
       /\ phase' = "flat" => \A k \in 1..Len(items') : items'[k].type # "section"]_vars

\* ================================================================ bulk_process_urls
MaxUrls == 3

MaxConcurrency == 2

\* The stages whose function runs in a thread of the shared pool (pipeline.py
\* 513-518).
ThreadStages == {"ParseStage", "ExtractStage", "ExportStage"}

\* What ends a pipeline before its last stage.
Failures == {"TimeoutError", "Web2JsonError", "Exception"}

Task(pc_, stage, thread) == [pc |-> pc_, stage |-> stage, thread |-> thread]

Result(url, success) == [url |-> url, success |-> success]

\* The URL of an entry that names none ("unknown").
UNKNOWN == 0

\* The exception leaves process_with_semaphore.
Unhandled(failure) == IF failure = "Exception" THEN "raise" ELSE "return"

\* The three except clauses of process_with_semaphore (lines 545-573) turn every
\* failure of the pipeline into a returned entry.
Handled(failure) == "return"

BulkOthers == <<EarlyVars, tmVars, stageVars, urlVars>>

BulkInit ==
    /\ urls \in 0..MaxUrls
    /\ max_concurrency \in 1..MaxConcurrency
    /\ semaphore = max_concurrency
    /\ tasks = [u \in 1..urls |-> Task("created", 0, FALSE)]
    /\ results = <<>>
    /\ bulk_pc = "gather"
    /\ IdleBut("bulk")

\* "async with semaphore" is entered.
Acquire == \E u \in 1..urls :
    /\ bulk_pc = "gather"
    /\ tasks[u].pc = "created"
    /\ semaphore > 0
    /\ semaphore' = semaphore - 1
    /\ tasks' = [tasks EXCEPT ![u] = Task("running", 1, FALSE)]
    /\ UNCHANGED <<urls, max_concurrency, results, bulk_pc, BulkOthers>>

\* A stage of URL u completes; after the last one the entry is returned, the
\* semaphore released and the entry appended by the as_completed loop.
RunStage == \E u \in 1..urls :
    /\ bulk_pc = "gather"
    /\ tasks[u].pc = "running"
    /\ IF tasks[u].stage < Len(StageNames)
       THEN /\ tasks' = [tasks EXCEPT ![u].stage = @ + 1]
            /\ UNCHANGED <<semaphore, results>>
       ELSE /\ tasks' = [tasks EXCEPT ![u].pc = "done"]
            /\ semaphore' = semaphore + 1
            /\ results' = Append(results, Result(u, TRUE))
    /\ UNCHANGED <<urls, max_concurrency, bulk_pc, BulkOthers>>

\* The stage URL u is in fails: run_pipeline raises, the semaphore is released, and
\* an entry is appended, by line 590 for a returned entry and by line 600 for a task
\* that raised.  After a timeout in a thread stage the function goes on in its
\* thread.
FailStage == \E u \in 1..urls :
    /\ bulk_pc = "gather"
    /\ tasks[u].pc = "running"
    /\ \E failure \in Failures :
          /\ tasks' = [tasks EXCEPT ![u] =
                          Task("done", @.stage,
                               failure = "TimeoutError"
                               /\ StageNames[@.stage] \in ThreadStages)]
          /\ results' = Append(results,
                               IF Handled(failure) = "return" THEN Result(u, FALSE)
                               ELSE Result(UNKNOWN, FALSE))
    /\ semaphore' = semaphore + 1
    /\ UNCHANGED <<urls, max_concurrency, bulk_pc, BulkOthers>>

\* The function left behind in the pool thread returns.
ThreadEnds == \E u \in 1..urls :
    /\ tasks[u].thread
    /\ tasks' = [tasks EXCEPT ![u].thread = FALSE]
    /\ UNCHANGED <<urls, max_concurrency, semaphore, results, bulk_pc, BulkOthers>>

\* The URLs of the list, in order, that have no entry.
RECURSIVE Missing(_, _)
Missing(u, rs) ==
    IF u > urls THEN <<>>
    ELSE (IF \E k \in 1..Len(rs) : rs[k].url = u THEN <<>> ELSE <<Result(u, FALSE)>>)
         \o Missing(u + 1, rs)

\* Every task is done and the pool has shut down (shutdown(wait=True) waits for the
\* threads); lines 607-620 add an entry for each URL without one and return.
ReturnResults ==
    /\ bulk_pc = "gather"
    /\ \A u \in 1..urls : tasks[u].pc = "done" /\ ~tasks[u].thread
    /\ results' = results \o Missing(1, results)
    /\ bulk_pc' = "returned"
    /\ UNCHANGED <<urls, max_concurrency, semaphore, tasks, BulkOthers>>

BulkNext ==
    \/ Acquire
    \/ RunStage
    \/ FailStage
    \/ ThreadEnds
    \/ ReturnResults

SpecBulk == BulkInit /\ [][BulkNext]_vars

\* The URLs between acquiring and releasing the semaphore, and the URLs some work
\* is being done for.
Holding == {u \in 1..urls : tasks[u].pc = "running"}

BeingProcessed == {u \in 1..urls : tasks[u].pc = "running" \/ tasks[u].thread}

\* C24: at most max_concurrency pipelines hold the semaphore, and at most
\* max_concurrency URLs are being fetched, parsed, extracted or exported at a time.
C24_BoundedConcurrency ==
    /\ Cardinality(Holding) <= max_concurrency
    /\ semaphore = max_concurrency - Cardinality(Holding)
    /\ Cardinality(BeingProcessed) <= max_concurrency

\* C25: bulk_process_urls returns one entry per URL of the list, each with its url
\* and its success flag, whichever URLs fail and in whatever order they complete.
C25_OneResultPerUrl ==
    bulk_pc = "returned"
    => /\ Len(results) = urls
       /\ \A u \in 1..urls :
             Cardinality({k \in 1..Len(results) : results[k].url = u}) = 1
       /\ \A k \in 1..Len(results) :
             results[k].success <=> (tasks[results[k].url].stage = Len(StageNames)
                                     /\ results[k] = Result(results[k].url, TRUE))

\* Three URLs, the second failed first, the others succeeded later.
C25_Witness ==
    /\ bulk_pc = "returned"
    /\ urls = 3
    /\ results[1] = Result(2, FALSE)
    /\ results[2].success
    /\ results[3].success

\* ================================================================ process_url
\* The dictionary returned, or the exception that left the call.
UrlResult(success, output_path, error) ==
    [kind |-> "return", success |-> success, url |-> "url", output_path |-> output_path,
     error |-> error]

UrlRaised(failure) ==
    [kind |-> "raise", success |-> FALSE, url |-> "url", output_path |-> None,
     error |-> failure]

\* Only the first two except clauses are there.
CatchKnown(failure, same_class) ==
    IF failure = "Exception" THEN UrlRaised(failure)
    ELSE UrlResult(FALSE, None, "str(e)")

\* The except clauses of lines 445-471.  run_pipeline raises the builtin
\* TimeoutError, which is asyncio.TimeoutError from Python 3.11 on and a plain
\* OSError subclass before.
Catch(failure, same_class) ==
    IF failure = "TimeoutError" /\ same_class
    THEN UrlResult(FALSE, None, "Operation timed out")
    ELSE IF failure = "Web2JsonError" THEN UrlResult(FALSE, None, "str(e)")
    ELSE UrlResult(FALSE, None, "Unexpected error")

UrlOthers == <<EarlyVars, tmVars, stageVars, bulkVars>>

UrlInit ==
    /\ url_args \in [output_path : {None, "out.json"}, output_dir : {None, "dir"},
                     preserve_styles : BOOLEAN, same_class : BOOLEAN]
    /\ url_stage = 1
    /\ url_outcome = <<>>
    /\ IdleBut("url")

\* The stage completes.  ExportStage needs a path or a directory (lines 342-350);
\* after it, lines 424-444 return the success dictionary.
UrlStageCompletes ==
    /\ url_outcome = <<>>
    /\ url_stage <= Len(StageNames)
    /\ StageNames[url_stage] = "ExportStage"
       => (url_args.output_path # None \/ url_args.output_dir # None)
    /\ url_stage' = url_stage + 1
    /\ url_outcome' =
          IF url_stage < Len(StageNames) THEN <<>>
          ELSE <<UrlResult(TRUE,
                           IF url_args.output_path # None THEN url_args.output_path
                           ELSE "generated", None)>>
    /\ UNCHANGED <<url_args, UrlOthers>>

\* The stage fails: run_pipeline raises and an except clause takes over.
UrlStageFails ==
    /\ url_outcome = <<>>
    /\ url_stage <= Len(StageNames)
    /\ \E failure \in Failures : url_outcome' = <<Catch(failure, url_args.same_class)>>
    /\ UNCHANGED <<url_args, url_stage, UrlOthers>>

UrlNext == UrlStageCompletes \/ UrlStageFails

SpecUrl == UrlInit /\ [][UrlNext]_vars

\* C26: process_url never raises for a failed stage: it returns success = False with
\* the url and an error message when a stage failed, and success = True with the
\* output path when all five stages completed, one or the other.
C26_FailureBecomesResult ==
    url_outcome # <<>>
    => LET r == url_outcome[1]
       IN  /\ r.kind = "return"
           /\ r.url = "url"
           /\ r.success <=> url_stage > Len(StageNames)
           /\ r.success => r.output_path # None /\ r.error = None
           /\ ~r.success => r.error # None /\ r.output_path = None

\* ExtractStage, the third, timed out and the call returned the failure.
C26_Witness ==
    /\ url_outcome # <<>>
    /\ url_stage = 3
    /\ ~url_outcome[1].success
    /\ url_outcome[1].error = "Operation timed out"

\* ---------------------------------------------------------------- section stack
\* C27: the levels on sections_stack increase strictly from bottom to top and lie in
\* 1..6, so at most six sections are open; each entry is a Section of that level; in
\* the tree a Section nested in a Section has a strictly greater level than its
\* parent, and every Section has a level in 1..6.
C27_StackStrictlyIncreasing ==
    /\ Len(sections_stack) <= 6
    /\ \A a \in 1..Len(sections_stack) :
          /\ sections_stack[a].level \in 1..6
          /\ sections_stack[a].section \in 1..Len(items)
          /\ items[sections_stack[a].section].type = "section"
          /\ items[sections_stack[a].section].level = sections_stack[a].level
          /\ \A b \in (a + 1)..Len(sections_stack) :
                sections_stack[a].level < sections_stack[b].level
    /\ \A k \in 1..Len(items) :
          items[k].type = "section"
          => /\ items[k].level \in 1..6
             /\ items[k].parent # 0
                => /\ items[items[k].parent].type = "section"
                   /\ items[items[k].parent].level < items[k].level

\* h1, h2, h3 opened three nested sections, and a later h2 closed two of them.
C27_Witness ==
    /\ phase = "hier"
    /\ Len(sections_stack) = 2
    /\ \E a, b, c, d \in 1..Len(items) :
          /\ items[a].type = "section" /\ items[a].level = 1 /\ items[a].parent = 0
          /\ items[b].type = "section" /\ items[b].level = 2 /\ items[b].parent = a
          /\ items[c].type = "section" /\ items[c].level = 3 /\ items[c].parent = b
          /\ items[d].type = "section" /\ items[d].level = 2 /\ items[d].parent = a
          /\ d > c

\* ---------------------------------------------------------------- admitted blocks
\* C28: every block admitted to processed_blocks has at least 15 characters of
\* stripped text and the fingerprints in processed_blocks are pairwise distinct; a
\* block with less text, a short heading included, is dropped by the candidate pass
\* and by the aggressive pass alike and reaches neither the sort nor the organizer.
C28_AdmittedBlocksHaveFingerprints ==
    /\ \A i \in 1..Len(processed_blocks) :
          /\ processed_blocks[i].len >= FP_MIN_LEN
          /\ \A j \in 1..Len(processed_blocks) :
                i # j => FpOf(processed_blocks[i]) # FpOf(processed_blocks[j])
    /\ \A k \in 1..Len(blocks) : blocks[k].len >= FP_MIN_LEN
    /\ \A k \in 1..Len(items) : blocks[items[k].src].len >= FP_MIN_LEN
    /\ \A k \in 1..Len(encountered) :
          encountered[k].len < FP_MIN_LEN
          => /\ \A i \in 1..Len(processed_blocks) :
                   processed_blocks[i] # encountered[k]
             /\ \A i \in 1..Len(blocks) : blocks[i] # encountered[k]

\* Both passes ran, a heading with less than 15 characters was met, and the blocks
\* that were admitted have been organized.
C28_Witness ==
    /\ pc = "organize" /\ phase = "done" /\ items # <<>>
    /\ visited > 0 /\ aggressive_ran
    /\ \E k \in 1..Len(encountered) :
          IsHeadingTag(encountered[k].tag) /\ encountered[k].len < FP_MIN_LEN
    /\ \E k \in 1..Len(encountered) :
          ~IsHeadingTag(encountered[k].tag) /\ encountered[k].len < FP_MIN_LEN

\* ---------------------------------------------------------------- emitting tags
\* C29: every block the candidate pass or the aggressive pass hands over, and that
\* counts toward the sufficiency threshold, has a tag for which
\* organize_hierarchically emits an item (h1-h6, p, ul/ol, blockquote, pre or a div
\* holding a pre, table); so whenever the threshold was met the organized result is
\* not empty.
C29_CountedBlocksAreEmitted ==
    /\ \A k \in 1..Len(encountered) : HierType(encountered[k]) # ""
    /\ (pc = "organize" /\ phase = "done" /\ content_sufficient) => items # <<>>

\* ---------------------------------------------------------------- nesting
\* Block x is an element of the document and block y one of its descendants.
Nested(x, y) == ~x.synth /\ ~y.synth /\ x.node \in Ancestors(doc, y.node)

\* C30: no content is emitted twice through nesting: when an element is emitted as
\* an item, none of its descendants is emitted as an item of its own (a list nested
\* in a list item, a paragraph inside a list item or a blockquote), whichever of
\* the direct-child walk, the fallback scan and the aggressive scan collected them.
C30_NoNestedDuplicates ==
    (pc = "organize" /\ phase = "done")
    => \A a, b \in 1..Len(items) :
          (items[a].type # "section" /\ items[b].type # "section")
          => ~Nested(blocks[items[a].src], blocks[items[b].src])

====
